---------------------------- MODULE Spec2Model ----------------------------
(***************************************************************************)
(* Model of the stonks metric-ingestion pipeline: MetricBuffer             *)
(* (stonks/buffer.py), HardwareMonitor (stonks/hardware.py), Run           *)
(* (stonks/run.py) and the parts of the store they write                   *)
(* (stonks/store/metrics.py, stonks/store/runs.py).                        *)
(*                                                                         *)
(* SpecBuf drives one MetricBuffer with an abstract flush callback from a  *)
(* controlling thread ("main": start/stop/add/flush), a second producer    *)
(* thread ("sampler": add of a sample) and the buffer's timer threads.     *)
(*                                                                         *)
(* SpecRun drives Run objects, one after the other, against one store:     *)
(* "main" is the training thread (start/log/flush/finish), "sampler" the   *)
(* HardwareMonitor thread, and the timer thread belongs to the Run's       *)
(* MetricBuffer, whose flush callback is Run._flush_metrics.  SpecResume   *)
(* lets processes follow one another on one store.                         *)
(*                                                                         *)
(* SpecConfig and SpecNotFound are about the arguments of start(): config, *)
(* run_id, resume and the experiment name.  SpecLife is the life of a run  *)
(* from start to finish, by finish, by leaving the with-block or by the    *)
(* Lightning logger's finalize.                                            *)
(*                                                                         *)
(* SpecCreate and SpecStore add the operator, a second process on the same *)
(* database file (store functions, CLI commands delete and gc,             *)
(* stonks/cli.py).  SpecSchema is initialize_db                            *)
(* (stonks/store/connection.py) on new and older database files, SpecDown  *)
(* is downsample_minmax (stonks/server/downsampling.py).  SpecTwo is two    *)
(* Runs in two threads, each with its own connection to one database file. *)
(***************************************************************************)
EXTENDS Integers, Sequences, FiniteSets, TLC

(***************************************************************************)
(* Bounds                                                                  *)
(***************************************************************************)
\* max_size handed to the MetricBuffer constructor
MaxSize == 2
\* total number of add calls in a behaviour
MaxAdds == 2
\* largest explicit step handed to Run.log
MaxStep == 2
\* number of runs the Run objects of the training thread create
MaxRuns == 1
\* number of ids generated by uuid4()
MaxUuids == 3
\* longest series handed to downsample_minmax
MaxLen == 5
\* largest target_points handed to downsample_minmax
MaxTarget == 4
\* length of the long series handed to downsample_minmax
LongLen == 17

(***************************************************************************)
(* Threads                                                                 *)
(***************************************************************************)
NoThread == "none"
Timers == {"timer1", "timer2"}
Producers == {"main", "sampler"}
\* the threads of a HardwareMonitor: "sampler", and "sampler2" for one that
\* is started while "sampler" has not ended
Samplers == {"sampler", "sampler2"}
\* a second thread of the caller that logs to the Run
Workers == {"worker"}
Threads == Producers \cup Timers \cup Samplers \cup Workers

(***************************************************************************)
(* Metric values.  ty "int" is a Python int; "float", "nan", "inf" and     *)
(* "ninf" are Python floats (finite, NaN, +Infinity, -Infinity).  A stored *)
(* value is a float ("float") or None ("null").                            *)
(***************************************************************************)
IntV(n) == [ty |-> "int", n |-> n]
FloatV(n) == [ty |-> "float", n |-> n]
NaN == [ty |-> "nan", n |-> 0]
PosInf == [ty |-> "inf", n |-> 0]
NegInf == [ty |-> "ninf", n |-> 0]
Null == [ty |-> "null", n |-> 0]

\* isinstance(value, float)
IsFloat(v) == v.ty \in {"float", "nan", "inf", "ninf"}
\* math.isinf(value)
IsInf(v) == v.ty \in {"inf", "ninf"}
\* math.isnan(value)
IsNan(v) == v.ty = "nan"
\* float(value)
ToFloat(v) == IF v.ty = "int" THEN FloatV(v.n) ELSE v

\* a metrics dict is the sequence of its items in insertion order
Item(k, v) == [key |-> k, value |-> v]
MetricDicts ==
    {<<>>,
     <<Item("a", NaN), Item("b", NegInf)>>,
     <<Item("a", PosInf), Item("b", IntV(1))>>,
     <<Item("a", IntV(1)), Item("b", IntV(1))>>}

\* what the sampling thread adds: one finite float
Sample == <<Item("sys", FloatV(3))>>

\* the tuple (key, stored_value, step, timestamp) of buffer.py line 89
Point(k, v, s, ts) == [key |-> k, value |-> v, step |-> s, ts |-> ts]

\* mutant: NaN is not turned into None
StoredValue_KeepsNaN(v) == ToFloat(v)

\* the value add() stores for a non-infinite input (buffer.py lines 84-87)
StoredValue(v) == IF IsFloat(v) /\ IsNan(v) THEN Null ELSE ToFloat(v)

\* the metrics mapping holds an infinite value
HasInf(m) == \E i \in DOMAIN m : m[i].value.ty \in {"inf", "ninf"}

NoRun == 0
NoStep == -1

(***************************************************************************)
(* Ids.  The values of uuid.uuid4() are 1, 2, ... in the order they are    *)
(* generated; UserId is a run id chosen by the caller (the run_id          *)
(* argument); NoId stands for None.                                        *)
(***************************************************************************)
NoId == 0
UserId == 99

(***************************************************************************)
(* Configs.  A config is None or a dict; a dict is the sequence of its     *)
(* items in insertion order.  The column runs.config holds NULL or the     *)
(* JSON text of the dict, which lists the items in the same order.         *)
(***************************************************************************)
NoneConfig == [none |-> TRUE, items |-> <<>>]
Dict(items) == [none |-> FALSE, items |-> items]
\* the tags of a Run, None or a list of strings, and its notes, None or a
\* string (run.py lines 94-95)
NoneTags == [none |-> TRUE, items |-> <<>>]
Tags(items) == [none |-> FALSE, items |-> items]
NoneNotes == [none |-> TRUE, text |-> ""]
Notes(text) == [none |-> FALSE, text |-> text]
\* models.py, tags_to_json, lines 106-108: None stays NULL, a list is dumped
TagsToJson(t) == [null |-> t.none, text |-> t.items]
\* bool(config): neither None nor the empty dict
Truthy(c) == ~c.none /\ c.items # <<>>
\* models.py, config_to_json: None stays NULL, a dict is dumped
ConfigToJson(c) == [null |-> c.none, text |-> c.items]
\* models.py, config_from_json: NULL gives None, a text is loaded
ConfigFromJson(j) == [none |-> j.null, items |-> j.text]
\* a == b for two dicts: the same keys with the same values, in any order
DictEq(a, b) ==
    /\ a.none = b.none
    /\ {a.items[i] : i \in DOMAIN a.items} = {b.items[i] : i \in DOMAIN b.items}
\* the keys of a dict
DictKeys(c) == {c.items[i].key : i \in DOMAIN c.items}
\* c[k] for a key of the dict
DictGet(c, k) == (CHOOSE it \in {c.items[i] : i \in DOMAIN c.items} : it.key = k).value

\* dict.update on the items d with the items u: a key that is there gets
\* the new value in place, a new key is appended
RECURSIVE DictUpdate(_, _)
DictUpdate(d, u) ==
    IF u = <<>> THEN d
    ELSE LET it == Head(u)
             at == {i \in DOMAIN d : d[i].key = it.key}
         IN DictUpdate(IF at = {} THEN Append(d, it)
                       ELSE [i \in DOMAIN d |-> IF i \in at THEN it ELSE d[i]],
                       Tail(u))

VARIABLES
    strict,       \* MetricBuffer._strict and Run._strict
    buffer,       \* MetricBuffer._buffer
    lock,         \* holder of MetricBuffer._lock, or NoThread
    thread,       \* MetricBuffer._thread: a timer thread, or NoThread for None
    stop_event,   \* MetricBuffer._stop_event
    pc,           \* position of every thread
    op,           \* public call a thread is executing
    loc,          \* locals of the call: entries of add, batch of _flush_locked,
                  \* status of finish, exc_type of __exit__, name and result
                  \* of a create call; exc is the exception the call leaves
                  \* with
    clock,        \* time.time(): one tick per add call
    wall,         \* time.time() as the store reads it for last_heartbeat
    accepted,     \* history: points appended to _buffer, in order
    delivered,    \* history: the batches the flush callback of SpecBuf was
                  \* called with
    callSnap,     \* history: what held when "main" entered the
                  \* MetricBuffer.stop() or MetricBuffer.flush() it is in
    prefix,       \* Run._prefix
    experiment_name, \* Run._experiment_name, once start() has resolved it
    conn,         \* Run._conn: "none" or "open"
    run_info,     \* Run._run_info: the id of the run, or NoRun
    run_buffer,   \* Run._buffer is not None
    step_counter, \* Run._step_counter
    resumed,      \* start() resumed an existing run
    config,       \* Run._config
    tags,         \* Run._tags
    notes,        \* Run._notes
    hw_monitor,   \* Run._hw_monitor is not None; its thread is "sampler"
    hw_thread,    \* HardwareMonitor._thread: a sampler thread, or NoThread
    hw_stop_event,\* HardwareMonitor._stop_event
    hw_step,      \* HardwareMonitor._step
    db_projects,  \* table projects, in order of created_at
    db_experiments, \* table experiments, in order of created_at
    db_runs,      \* table runs, in order of created_at
    db_metrics,   \* table metrics, in order of insertion
    uuids,        \* number of uuid4() values that became ids
    schema,       \* tables, columns and indexes of the database file
    oper,         \* the operator's process (CLI command or API client)
    ds,           \* a call of downsample_minmax: arguments and result
    lost,         \* history: points handed to Run._flush_metrics, not inserted
    explicit_runs,\* history: runs that were logged to with an explicit step
    resume_max,   \* history: largest step stored for the run when resumed
    low_explicit  \* history: since the resume, log got a step below resume_max

\* the arguments of Run that start() uses
argVars == <<prefix, experiment_name>>
\* what no call changes: the mode, and the time of the store
envVars == <<strict, wall>>
bufVars == <<buffer, lock, thread, stop_event>>
thrVars == <<pc, op, loc>>
histVars == <<accepted, delivered, callSnap>>
runVars == <<conn, run_info, run_buffer, step_counter, resumed, config, tags, notes>>
hwVars == <<hw_monitor, hw_thread, hw_stop_event, hw_step>>
\* the tables besides runs and metrics, and the id generator
dbOther == <<db_projects, db_experiments, uuids>>
dbVars == <<dbOther, db_runs, db_metrics>>
\* what no Run touches after start(): the schema, the operator and the
\* downsampler
extVars == <<schema, oper, ds>>
runHist == <<lost, explicit_runs, resume_max, low_explicit>>
\* everything of a Run and its store
runAll == <<argVars, runVars, hwVars, dbVars, runHist, extVars>>

vars == <<envVars, clock, bufVars, thrVars, histVars, runAll>>

\* exc_type of a thread that is not inside Run.__exit__
NotInExit == "not in __exit__"
NoLoc == [entries |-> <<>>, batch |-> <<>>, exc |-> "none", status |-> "none",
          exc_type |-> NotInExit, name |-> "", result |-> NoId]
NoSnap == [started |-> FALSE, acc |-> 0, quiet |-> FALSE]

\* mutant: in strict mode an infinite value ends the loop without raising
RECURSIVE AddLoop_Break(_, _, _, _, _, _)
AddLoop_Break(metrics, i, step, ts, st, entries) ==
    IF i > Len(metrics)
    THEN [raised |-> FALSE, entries |-> entries]
    ELSE LET key == metrics[i].key
             value == metrics[i].value
         IN IF IsFloat(value) /\ IsInf(value)
            THEN IF st
                 THEN [raised |-> FALSE, entries |-> entries]
                 ELSE AddLoop_Break(metrics, i + 1, step, ts, st, entries)
            ELSE AddLoop_Break(metrics, i + 1, step, ts, st,
                               Append(entries, Point(key, StoredValue(value), step, ts)))

(***************************************************************************)
(* MetricBuffer.add, lines 74-89: the loop over metrics.items().  Returns  *)
(* the entries built and whether the loop raised InvalidMetricError.       *)
(***************************************************************************)
RECURSIVE AddLoop(_, _, _, _, _, _)
AddLoop(metrics, i, step, ts, st, entries) ==
    IF i > Len(metrics)
    THEN [raised |-> FALSE, entries |-> entries]
    ELSE LET key == metrics[i].key
             value == metrics[i].value
         IN IF IsFloat(value) /\ IsInf(value)
            THEN IF st
                 THEN [raised |-> TRUE, entries |-> entries]
                 ELSE AddLoop(metrics, i + 1, step, ts, st, entries)
            ELSE AddLoop(metrics, i + 1, step, ts, st,
                         Append(entries, Point(key, StoredValue(value), step, ts)))

\* mutant: Run.log swallows the exception in strict mode too
CallerSees_Swallow(o, exc) == IF o = "log" THEN "none" ELSE exc

\* what the caller of public call o gets when the buffer's code leaves with
\* exc: Run.log (run.py lines 272-277) re-raises in strict mode only
CallerSees(o, exc) == IF o = "log" /\ exc # "none" /\ ~strict THEN "none" ELSE exc

\* a call leaves the buffer's code, returning (exc = "none") or raising exc:
\* a producer is at its return point, a timer thread goes on with its loop
\* or ends with the exception
Leave(t, exc) ==
    /\ loc' = [loc EXCEPT ![t].entries = <<>>, ![t].batch = <<>>,
                          ![t].exc = CallerSees(op[t], exc)]
    /\ IF t \in Timers
       THEN pc' = [pc EXCEPT ![t] = IF exc = "none" THEN "wait" ELSE "crashed"]
       ELSE pc' = [pc EXCEPT ![t] = "ret"]

\* some add call is between its entry and its return
AddInProgress == \E t \in Producers : op[t] \in {"add", "log", "poll"}

\* taken when "main" enters stop(), flush() or finish(): was the buffer
\* started, how many points had been accepted, and was no add in progress
\* (quiet is withdrawn by any add that begins before the call has returned)
Snapshot == [started |-> thread # NoThread, acc |-> Len(accepted),
             quiet |-> ~AddInProgress]

(***************************************************************************)
(* MetricBuffer.add, lines 74-91, as public call o of thread t: the        *)
(* timestamp, the loop and the test of entries.  The thread then waits for *)
(* the lock.                                                               *)
(***************************************************************************)
AddEnter(t, metrics, step, o) ==
    /\ clock < MaxAdds
    /\ clock' = clock + 1
    /\ op' = [op EXCEPT ![t] = o]
    /\ callSnap' = [callSnap EXCEPT !.quiet = FALSE]
    /\ LET r == AddLoop(metrics, 1, step, clock, strict, <<>>)
       IN IF r.raised
          THEN /\ pc' = [pc EXCEPT ![t] = "ret"]
               /\ loc' = [loc EXCEPT ![t] =
                            [NoLoc EXCEPT !.exc = CallerSees(o, "InvalidMetricError")]]
          ELSE IF r.entries = <<>>
          THEN /\ pc' = [pc EXCEPT ![t] = "ret"]
               /\ loc' = [loc EXCEPT ![t] = NoLoc]
          ELSE /\ pc' = [pc EXCEPT ![t] = "add_lock"]
               /\ loc' = [loc EXCEPT ![t] = [NoLoc EXCEPT !.entries = r.entries]]
    /\ UNCHANGED <<envVars, bufVars, accepted, delivered>>

\* MetricBuffer.add called on the buffer itself
Add(t, metrics, step) ==
    /\ t \in Producers
    /\ pc[t] = "idle"
    /\ AddEnter(t, metrics, step, "add")
    /\ UNCHANGED runAll

\* mutant: _flush_locked hands the batch over without clearing the buffer
AddLocked_KeepsBatch(t) ==
    /\ pc[t] = "add_lock"
    /\ lock = NoThread
    /\ accepted' = accepted \o loc[t].entries
    /\ LET extended == buffer \o loc[t].entries
       IN IF Len(extended) >= MaxSize
          THEN /\ buffer' = extended
               /\ lock' = t
               /\ pc' = [pc EXCEPT ![t] = "flush_fn"]
               /\ loc' = [loc EXCEPT ![t].entries = <<>>, ![t].batch = extended]
          ELSE /\ buffer' = extended
               /\ lock' = NoThread
               /\ Leave(t, "none")
    /\ UNCHANGED <<envVars, clock, thread, stop_event, op, delivered, callSnap, runAll>>

\* mutant: the flush is triggered above max_size, not at max_size
AddLocked_AboveMax(t) ==
    /\ pc[t] = "add_lock"
    /\ lock = NoThread
    /\ accepted' = accepted \o loc[t].entries
    /\ LET extended == buffer \o loc[t].entries
       IN IF Len(extended) > MaxSize
          THEN /\ buffer' = <<>>
               /\ lock' = t
               /\ pc' = [pc EXCEPT ![t] = "flush_fn"]
               /\ loc' = [loc EXCEPT ![t].entries = <<>>, ![t].batch = extended]
          ELSE /\ buffer' = extended
               /\ lock' = NoThread
               /\ Leave(t, "none")
    /\ UNCHANGED <<envVars, clock, thread, stop_event, op, delivered, callSnap, runAll>>

(***************************************************************************)
(* MetricBuffer.add, lines 92-95, with _flush_locked lines 104-107: under  *)
(* the lock, extend the buffer and, at max_size, take the batch.           *)
(***************************************************************************)
AddLocked(t) ==
    /\ pc[t] = "add_lock"
    /\ lock = NoThread
    /\ accepted' = accepted \o loc[t].entries
    /\ LET extended == buffer \o loc[t].entries
       IN IF Len(extended) >= MaxSize
          THEN /\ buffer' = <<>>
               /\ lock' = t
               /\ pc' = [pc EXCEPT ![t] = "flush_fn"]
               /\ loc' = [loc EXCEPT ![t].entries = <<>>, ![t].batch = extended]
          ELSE /\ buffer' = extended
               /\ lock' = NoThread
               /\ Leave(t, "none")
    /\ UNCHANGED <<envVars, clock, thread, stop_event, op, delivered, callSnap, runAll>>

(***************************************************************************)
(* MetricBuffer._flush_locked, lines 104-107, entered from flush() once    *)
(* the lock is acquired.                                                   *)
(***************************************************************************)
FlushLocked(t) ==
    /\ pc[t] = "flush_lock"
    /\ lock = NoThread
    /\ IF buffer = <<>>
       THEN /\ Leave(t, "none")
            /\ UNCHANGED <<buffer, lock>>
       ELSE /\ buffer' = <<>>
            /\ lock' = t
            /\ pc' = [pc EXCEPT ![t] = "flush_fn"]
            /\ loc' = [loc EXCEPT ![t].batch = buffer]
    /\ UNCHANGED <<envVars, clock, thread, stop_event, op, histVars, runAll>>

(***************************************************************************)
(* MetricBuffer.flush, lines 97-100, as public call o of the controlling   *)
(* thread.  A caller that finds the lock taken waits; nothing observes the *)
(* wait, so the call and the acquisition are one step.                     *)
(***************************************************************************)
FlushEnter(t, o) ==
    /\ lock = NoThread
    /\ op' = [op EXCEPT ![t] = o]
    /\ callSnap' = IF o = "flush" THEN Snapshot ELSE callSnap
    /\ IF buffer = <<>>
       THEN /\ pc' = [pc EXCEPT ![t] = "ret"]
            /\ loc' = [loc EXCEPT ![t] = NoLoc]
            /\ UNCHANGED <<buffer, lock>>
       ELSE /\ buffer' = <<>>
            /\ lock' = t
            /\ pc' = [pc EXCEPT ![t] = "flush_fn"]
            /\ loc' = [loc EXCEPT ![t] = [NoLoc EXCEPT !.batch = buffer]]
    /\ UNCHANGED <<envVars, clock, thread, stop_event, accepted, delivered>>

\* MetricBuffer.flush called on the buffer itself
Flush(t) ==
    /\ t \in Producers
    /\ pc[t] = "idle"
    /\ FlushEnter(t, "flush")
    /\ UNCHANGED runAll

(***************************************************************************)
(* MetricBuffer._flush_locked, lines 108-114, around the call of flush_fn: *)
(* the callback has returned or raised (failed); the exception is raised   *)
(* again in strict mode only, and the lock is released on the way out.     *)
(***************************************************************************)
AfterFlushFn(t, failed) ==
    /\ lock' = NoThread
    /\ Leave(t, IF failed /\ strict THEN "FlushError" ELSE "none")
    /\ UNCHANGED <<envVars, clock, buffer, thread, stop_event, op, accepted, callSnap>>

\* _flush_locked with the flush callback of SpecBuf, which records the batch
\* and returns (ok) or raises
FlushFn(t, ok) ==
    /\ pc[t] = "flush_fn"
    /\ lock = t
    /\ delivered' = Append(delivered, loc[t].batch)
    /\ AfterFlushFn(t, ~ok)
    /\ UNCHANGED runAll

\* the caller of add, flush or stop has the result and is free again
Return(t) ==
    /\ t \in Producers
    /\ pc[t] = "ret"
    /\ op[t] \in {"add", "flush", "stop"}
    /\ pc' = [pc EXCEPT ![t] = "idle"]
    /\ op' = [op EXCEPT ![t] = "none"]
    /\ loc' = [loc EXCEPT ![t] = NoLoc]
    /\ callSnap' = IF op[t] \in {"stop", "flush"} THEN NoSnap ELSE callSnap
    /\ UNCHANGED <<envVars, clock, bufVars, accepted, delivered, runAll>>

(***************************************************************************)
(* MetricBuffer.start, lines 45-52.  The new thread is the first timer     *)
(* thread that does not exist.                                             *)
(***************************************************************************)
Unborn == {tm \in Timers : pc[tm] = "unborn"}
NewTimer == IF "timer1" \in Unborn THEN "timer1" ELSE "timer2"

Start ==
    /\ pc["main"] = "idle"
    /\ IF thread # NoThread
       THEN UNCHANGED <<thread, stop_event, pc>>
       ELSE /\ Unborn # {}
            /\ stop_event' = FALSE
            /\ thread' = NewTimer
            /\ pc' = [pc EXCEPT ![NewTimer] = "wait"]
    /\ UNCHANGED <<envVars, clock, buffer, lock, op, loc, histVars, runAll>>

(***************************************************************************)
(* MetricBuffer._flush_loop, lines 118-119                                 *)
(***************************************************************************)
\* _stop_event.wait(interval) times out with the event clear: flush()
Tick(tm) ==
    /\ tm \in Timers
    /\ pc[tm] = "wait"
    /\ ~stop_event
    /\ pc' = [pc EXCEPT ![tm] = "flush_lock"]
    /\ UNCHANGED <<envVars, clock, bufVars, op, loc, histVars, runAll>>

\* _stop_event.wait(interval) returns True: the loop ends
LoopExit(tm) ==
    /\ tm \in Timers
    /\ pc[tm] = "wait"
    /\ stop_event
    /\ pc' = [pc EXCEPT ![tm] = "dead"]
    /\ UNCHANGED <<envVars, clock, bufVars, op, loc, histVars, runAll>>

(***************************************************************************)
(* MetricBuffer.stop, lines 54-62                                          *)
(***************************************************************************)
Stop ==
    /\ pc["main"] = "idle"
    /\ op' = [op EXCEPT !["main"] = "stop"]
    /\ callSnap' = Snapshot
    /\ IF thread = NoThread
       THEN /\ pc' = [pc EXCEPT !["main"] = "ret"]
            /\ UNCHANGED stop_event
       ELSE /\ stop_event' = TRUE
            /\ pc' = [pc EXCEPT !["main"] = "stop_join"]
    /\ UNCHANGED <<envVars, clock, buffer, lock, thread, loc, accepted, delivered,
                   runAll>>

\* mutant: stop() returns after the join, without the final flush
StopJoin_NoFinalFlush ==
    /\ pc["main"] = "stop_join"
    /\ pc[thread] \in {"dead", "crashed", "flush_lock", "flush_fn"}
    /\ thread' = NoThread
    /\ pc' = [pc EXCEPT !["main"] = "ret",
                        ![thread] = IF @ \in {"dead", "crashed"} THEN "unborn" ELSE @]
    /\ UNCHANGED <<envVars, clock, buffer, lock, stop_event, op, loc, histVars, runAll>>

\* a thread that is inside flush(): waiting for the lock, or in the callback
InFlush(t) == pc[t] \in {"flush_lock", "flush_fn", "cb_insert", "cb_heartbeat"}

\* _thread.join(timeout=5.0) returns: the thread has ended, or it is inside
\* flush() and the timeout elapses.  A thread that has ended is gone; its
\* name is free for a later start().
StopJoin ==
    /\ pc["main"] = "stop_join"
    /\ pc[thread] \in {"dead", "crashed"} \/ InFlush(thread)
    /\ thread' = NoThread
    /\ pc' = [pc EXCEPT !["main"] = "flush_lock",
                        ![thread] = IF @ \in {"dead", "crashed"} THEN "unborn" ELSE @]
    /\ UNCHANGED <<envVars, clock, buffer, lock, stop_event, op, loc, histVars, runAll>>

\* no Run object: the state of Run.__init__ (run.py lines 81-101), of a
\* HardwareMonitor that does not exist, and an empty store
NoRunObject ==
    /\ conn = "none"
    /\ run_info = NoRun
    /\ run_buffer = FALSE
    /\ step_counter = 0
    /\ resumed = FALSE
    /\ hw_monitor = FALSE
    /\ hw_thread = NoThread
    /\ hw_stop_event = FALSE
    /\ hw_step = 0
    /\ lost = {}
    /\ resume_max = -1
    /\ low_explicit = FALSE
    /\ config = NoneConfig
    /\ tags = NoneTags
    /\ notes = NoneNotes

\* no operator at work, no downsampling call, an empty database file
NoOper == [pc |-> "idle", cmd |-> "none", name |-> "", target |-> 0, runs |-> <<>>,
           running |-> {}, result |-> 0, stmt |-> 0, exc |-> "none",
           buffer |-> <<>>, logged |-> <<>>, stamp |-> 0]
NoDs == [pc |-> "idle", values |-> <<>>, target_points |-> 0, result |-> <<>>]
NoSchema == {}

NoBuffer ==
    /\ buffer = <<>>
    /\ lock = NoThread
    /\ thread = NoThread
    /\ stop_event = FALSE
    /\ pc = [t \in Threads |-> IF t \in Timers THEN "unborn" ELSE "idle"]
    /\ op = [t \in Threads |-> "none"]
    /\ loc = [t \in Threads |-> NoLoc]
    /\ accepted = <<>>
    /\ delivered = <<>>
    /\ callSnap = NoSnap

InitBuf ==
    /\ strict \in BOOLEAN
    /\ wall = 0
    /\ clock = 0
    /\ NoBuffer
    /\ NoRunObject
    /\ prefix = ""
    /\ experiment_name = ""
    /\ db_projects = <<>>
    /\ db_experiments = <<>>
    /\ db_runs = <<>>
    /\ db_metrics = <<>>
    /\ uuids = 0
    /\ explicit_runs = {}
    /\ schema = NoSchema
    /\ oper = NoOper
    /\ ds = NoDs

NextBuf ==
    \/ \E m \in MetricDicts : Add("main", m, 0)
    \/ Add("sampler", Sample, 0)
    \/ \E t \in Producers : AddLocked(t)
    \/ Flush("main")
    \/ \E t \in Threads : FlushLocked(t)
    \/ \E t \in Threads, ok \in BOOLEAN : FlushFn(t, ok)
    \/ \E t \in Producers : Return(t)
    \/ Start
    \/ \E tm \in Timers : Tick(tm)
    \/ \E tm \in Timers : LoopExit(tm)
    \/ Stop
    \/ StopJoin

SpecBuf == InitBuf /\ [][NextBuf]_vars

\* one caller with a MetricBuffer: it adds, starts and stops
NextStop ==
    \/ \E m \in MetricDicts : Add("main", m, 0)
    \/ AddLocked("main")
    \/ \E t \in {"main"} \cup Timers : FlushLocked(t)
    \/ \E t \in {"main"} \cup Timers, ok \in BOOLEAN : FlushFn(t, ok)
    \/ Return("main")
    \/ Start
    \/ \E tm \in Timers : Tick(tm)
    \/ \E tm \in Timers : LoopExit(tm)
    \/ Stop
    \/ StopJoin

\* The caller goes on whenever it can: it takes the lock when the lock is
\* free, its own callback returns, its join returns when the thread has
\* ended or the timeout has elapsed.  A timer thread wakes up when the
\* event is set.  A flush callback called by a timer thread returns when it
\* likes, or never: no fairness for it.
CallerGoesOn ==
    /\ WF_vars(AddLocked("main"))
    /\ WF_vars(FlushLocked("main"))
    /\ WF_vars(\E ok \in BOOLEAN : FlushFn("main", ok))
    /\ WF_vars(Return("main"))
    /\ WF_vars(StopJoin)
    /\ \A tm \in Timers : WF_vars(LoopExit(tm))

SpecStop == InitBuf /\ [][NextStop]_vars /\ CallerGoesOn

\* one caller with a MetricBuffer that it starts and never stops nor
\* flushes: it adds, and the timer thread does the rest
NextTimer ==
    \/ Start
    \/ \E m \in MetricDicts \cup {Sample} : Add("main", m, 0)
    \/ AddLocked("main")
    \/ Return("main")
    \/ \E tm \in Timers : Tick(tm)
    \/ \E t \in {"main"} \cup Timers : FlushLocked(t)
    \/ \E t \in {"main"} \cup Timers, ok \in BOOLEAN : FlushFn(t, ok)

\* _stop_event.wait(flush_interval) times out again and again; a thread that
\* waits for the lock gets it once it stays free; a callback returns or
\* raises; an add call goes on to its end
TimerGoesOn ==
    /\ \A tm \in Timers : WF_vars(Tick(tm))
    /\ \A t \in {"main"} \cup Timers :
          /\ WF_vars(FlushLocked(t))
          /\ WF_vars(\E ok \in BOOLEAN : FlushFn(t, ok))
    /\ WF_vars(AddLocked("main"))
    /\ WF_vars(Return("main"))

SpecTimer == InitBuf /\ [][NextTimer]_vars /\ TimerGoesOn

(***************************************************************************)
(* The store: tables runs and metrics (stonks/store)                       *)
(***************************************************************************)
\* a row of table projects (store/connection.py lines 11-15)
ProjectRow(id, name) == [id |-> id, name |-> name]
\* a row of table experiments (store/connection.py lines 16-23)
ExperimentRow(id, name, description, project_id) ==
    [id |-> id, name |-> name, description |-> description, project_id |-> project_id]
\* a row of table runs (store/connection.py lines 24-39): ended_at is
\* whether the column is not NULL, config is the JSON column
RunRow(id, experiment_id, st, ended, cfg, tgs, nts, hb) ==
    [id |-> id, experiment_id |-> experiment_id, status |-> st, ended_at |-> ended,
     config |-> cfg, tags |-> tgs, notes |-> nts, last_heartbeat |-> hb]

\* the ids of the rows of a table
Ids(table) == {table[i].id : i \in DOMAIN table}
\* the position of the row with the id: SELECT ... WHERE id = ?
PosOf(table, id) == CHOOSE i \in DOMAIN table : table[i].id = id
\* the row of table runs with the id
RunOf(id) == db_runs[PosOf(db_runs, id)]
\* the positions of the rows with the name: SELECT ... WHERE name = ?
ByName(table, name) == {i \in DOMAIN table : table[i].name = name}

NoName == ""
NoDescription == ""

(***************************************************************************)
(* store/projects.py, create_project, lines 27-41, on table projects with  *)
(* uu ids generated so far: the INSERT commits a new row, or fails on the  *)
(* UNIQUE name and the row that is there is read back.                     *)
(***************************************************************************)
CreateProject(projects, uu, name) ==
    IF ByName(projects, name) = {}
    THEN [table |-> Append(projects, ProjectRow(uu + 1, name)), id |-> uu + 1,
          uuids |-> uu + 1, exc |-> "none"]
    ELSE [table |-> projects, id |-> projects[CHOOSE i \in ByName(projects, name) : TRUE].id,
          uuids |-> uu, exc |-> "none"]

(***************************************************************************)
(* store/experiments.py, create_experiment, lines 48-75.  The INSERT fails *)
(* with IntegrityError on the UNIQUE name, and also on a project_id that   *)
(* is no row of projects (PRAGMA foreign_keys=ON, connection.py line 94);  *)
(* the handler reads the row with the name back, and when there is none,   *)
(* row["id"] raises TypeError.                                             *)
(***************************************************************************)
CreateExperiment(projects, experiments, uu, name, description, project_id) ==
    IF ByName(experiments, name) # {}
    THEN [table |-> experiments,
          id |-> experiments[CHOOSE i \in ByName(experiments, name) : TRUE].id,
          uuids |-> uu, exc |-> "none"]
    ELSE IF project_id # NoId /\ project_id \notin Ids(projects)
    THEN [table |-> experiments, id |-> NoId, uuids |-> uu, exc |-> "TypeError"]
    ELSE [table |-> Append(experiments, ExperimentRow(uu + 1, name, description, project_id)),
          id |-> uu + 1, uuids |-> uu + 1, exc |-> "none"]

\* store/runs.py, get_latest_run, lines 143-149: the position of the run of
\* the experiment created last, as a set (empty when there is none)
GetLatestRun(runs, experiment_id) ==
    LET at == {i \in DOMAIN runs : runs[i].experiment_id = experiment_id}
    IN {i \in at : \A j \in at : j <= i}

\* store/runs.py, get_run_by_id, line 127: the position of the run, as a set
GetRunById(runs, id) == {i \in DOMAIN runs : runs[i].id = id}
\* a row of table metrics (store/metrics.py, insert_metrics, line 24)
Row(run, p) == [run |-> run, key |-> p.key, value |-> p.value, step |-> p.step,
                ts |-> p.ts]
\* mutant: the rows of a batch are written last first
RowsOf_Reversed(run, batch) ==
    [i \in DOMAIN batch |-> Row(run, batch[Len(batch) + 1 - i])]

\* the rows insert_metrics writes for a batch, in order (line 24)
RowsOf(run, batch) == [i \in DOMAIN batch |-> Row(run, batch[i])]

\* store/runs.py, get_max_step: MAX(step) over the rows of the run, -1 if none
GetMaxStep(run) ==
    LET steps == {db_metrics[i].step : i \in {j \in DOMAIN db_metrics : db_metrics[j].run = run}}
    IN IF steps = {} THEN -1 ELSE CHOOSE x \in steps : \A y \in steps : y <= x

\* the statuses finish is called with (run.py, __exit__, lines 366-371)
FinishStatuses == {"completed", "failed"}
\* the values of the resume argument: False, True ("allow") and "must"
ResumeModes == {"no", "allow", "must"}
\* the value of the prefix argument
Prefixes == {"p"}
\* the step argument of log: None (NoStep), or an explicit step
StepArgs == {NoStep, 0, MaxStep}
\* the metrics mappings handed to Run.log
RunDicts == {<<Item("a", FloatV(2))>>, <<Item("a", PosInf)>>}
\* what HardwareMonitor._collect returns: a sample, or nothing
Collected == {Sample, <<>>}

\* run.py line 270: {f"{prefix}/{k}": v}
Prefixed(pfx, m) ==
    [i \in DOMAIN m |-> Item(IF pfx = "" THEN m[i].key ELSE pfx \o "/" \o m[i].key,
                             m[i].value)]

(***************************************************************************)
(* The schema, store/connection.py.  The database file is the set of the   *)
(* names of its tables, its columns ("table.column") and its indexes.      *)
(***************************************************************************)
Col(table, column) == table \o "." \o column
CreateTable(name, columns) ==
    [kind |-> "table", name |-> name, table |-> name, columns |-> columns]
CreateIndex(name, table, columns) ==
    [kind |-> "index", name |-> name, table |-> table, columns |-> columns]
AddColumn(table, column) ==
    [kind |-> "column", name |-> column, table |-> table, columns |-> {column}]

\* the columns the tables have had since the older schema
ExperimentColumns == {"id", "name", "description", "created_at", "metadata"}
RunColumns == {"id", "experiment_id", "name", "status", "config", "created_at",
               "ended_at", "last_heartbeat"}
MetricColumns == {"id", "run_id", "key", "value", "step", "timestamp"}

\* connection.py, _SCHEMA_STATEMENTS, lines 10-57
SchemaStatements ==
    << CreateTable("projects", {"id", "name", "created_at"}),
       CreateTable("experiments", ExperimentColumns \cup {"project_id"}),
       CreateTable("runs", RunColumns \cup {"group_name", "job_type", "tags", "notes",
                                            "prefix"}),
       CreateTable("metrics", MetricColumns),
       CreateIndex("idx_metrics_run_key_step", "metrics", {"run_id", "key", "step"}),
       CreateIndex("idx_metrics_run_timestamp", "metrics", {"run_id", "timestamp"}),
       CreateIndex("idx_runs_experiment", "runs", {"experiment_id", "created_at"}),
       CreateIndex("idx_runs_group", "runs", {"group_name"}),
       CreateIndex("idx_runs_job_type", "runs", {"job_type"}),
       CreateIndex("idx_experiments_created", "experiments", {"created_at"}),
       CreateIndex("idx_experiments_project", "experiments", {"project_id"}),
       CreateIndex("idx_projects_name", "projects", {"name"}) >>

\* connection.py, _MIGRATION_COLUMNS, lines 60-78; the first entry has
\* column None
MigrationColumns ==
    << CreateTable("projects", {"id", "name", "created_at"}),
       AddColumn("experiments", "project_id"),
       AddColumn("runs", "group_name"),
       AddColumn("runs", "job_type"),
       AddColumn("runs", "tags"),
       AddColumn("runs", "notes"),
       AddColumn("runs", "prefix") >>

\* the older schema: stonks/store.py, _SCHEMA_STATEMENTS, lines 20-52
OldSchemaStatements ==
    << CreateTable("experiments", ExperimentColumns),
       CreateTable("runs", RunColumns),
       CreateTable("metrics", MetricColumns),
       CreateIndex("idx_metrics_run_key_step", "metrics", {"run_id", "key", "step"}),
       CreateIndex("idx_metrics_run_timestamp", "metrics", {"run_id", "timestamp"}),
       CreateIndex("idx_runs_experiment", "runs", {"experiment_id", "created_at"}),
       CreateIndex("idx_experiments_created", "experiments", {"created_at"}) >>

\* conn.execute of one statement on the database db.  CREATE TABLE IF NOT
\* EXISTS leaves a table that is there as it is; CREATE INDEX IF NOT EXISTS
\* raises OperationalError when the index is not there and its table or one
\* of its columns is not there either; ALTER TABLE ADD COLUMN raises
\* OperationalError when the column is there.  Each statement that
\* succeeds is committed.
Execute(db, st) ==
    IF st.kind = "table"
    THEN [schema |-> IF st.name \in db THEN db
                     ELSE db \cup {st.name} \cup {Col(st.name, c) : c \in st.columns},
          exc |-> "none"]
    ELSE IF st.kind = "index"
    THEN IF st.name \in db THEN [schema |-> db, exc |-> "none"]
         ELSE IF st.table \notin db \/ \E c \in st.columns : Col(st.table, c) \notin db
         THEN [schema |-> db, exc |-> "OperationalError"]
         ELSE [schema |-> db \cup {st.name}, exc |-> "none"]
    ELSE IF st.table \notin db \/ Col(st.table, st.name) \in db
    THEN [schema |-> db, exc |-> "OperationalError"]
    ELSE [schema |-> db \cup {Col(st.table, st.name)}, exc |-> "none"]

\* initialize_db, lines 108-110: the statements in order; the first that
\* raises ends the call
RECURSIVE ExecuteAll(_, _)
ExecuteAll(db, statements) ==
    IF statements = <<>> THEN [schema |-> db, exc |-> "none"]
    ELSE LET r == Execute(db, Head(statements))
         IN IF r.exc # "none" THEN r ELSE ExecuteAll(r.schema, Tail(statements))

\* initialize_db, lines 113-122: the entry without a column is skipped, an
\* OperationalError of an ALTER TABLE is passed over
RECURSIVE Migrate(_, _)
Migrate(db, migrations) ==
    IF migrations = <<>> THEN db
    ELSE Migrate(IF Head(migrations).kind = "table" THEN db
                 ELSE Execute(db, Head(migrations)).schema,
                 Tail(migrations))

\* initialize_db, lines 108-122: the schema statements, then the migrations
InitializeStatements(db) ==
    LET r == ExecuteAll(db, SchemaStatements)
    IN IF r.exc # "none" THEN r
       ELSE [schema |-> Migrate(r.schema, MigrationColumns), exc |-> "none"]

\* what initialize_db makes of a new database file
CurrentSchema == InitializeStatements({}).schema

\* initialize_db, lines 100-124.  On a file that has the current schema
\* every CREATE finds its object and every ALTER TABLE raises and is passed
\* over, so the file stays as it is.
InitializeDb(db) ==
    IF db = CurrentSchema THEN [schema |-> db, exc |-> "none"]
    ELSE InitializeStatements(db)

\* a database file created by the older version
OldSchema == ExecuteAll({}, OldSchemaStatements).schema

\* mutant: the resumed counter starts at the stored maximum itself
ResumeCounter_NoPlusOne(run) == GetMaxStep(run)

\* run.py line 235: the step counter of a resumed run
ResumeCounter(run) == GetMaxStep(run) + 1

\* mutant: the supplied config replaces the stored one
MergedConfig_Replaces(stored, supplied) == supplied

\* run.py lines 238-239: merged = existing.config or {};
\* merged.update(self._config)
MergedConfig(stored, supplied) == Dict(DictUpdate(stored.items, supplied.items))

\* mutant: a mandatory resume that finds no run raises in strict mode only
StartRaises_StrictOnly(resume, found, dup) ==
    IF found THEN "none"
    ELSE IF resume = "must" /\ strict THEN "StonksError"
    ELSE IF dup THEN "IntegrityError"
    ELSE "none"

\* what start() raises: StonksError when resume is "must" and no run was
\* found (run.py lines 246-248), IntegrityError when create_run is given a
\* run id that is in the table (dup), nothing when a run was found
StartRaises(resume, found, dup) ==
    IF found THEN "none"
    ELSE IF resume = "must" THEN "StonksError"
    ELSE IF dup THEN "IntegrityError"
    ELSE "none"

\* another connection is inside PRAGMA journal_mode=WAL on a database file
\* that is not in WAL mode yet, and holds the lock of the file
\* (store/connection.py line 92)
FileLocked == oper.pc = "pragma"

(***************************************************************************)
(* Run.start with Run._try_resume, run.py lines 156-250, for a Run         *)
(* constructed with experiment_name ename, project pname (NoName for       *)
(* None), resume, run_id rid (NoRun for None), config cfg, hardware and    *)
(* prefix pfx.  create_project, create_experiment, reopen_run,             *)
(* update_run_config and create_run each commit, so what was written       *)
(* stays when a later statement raises.  create_run raises IntegrityError  *)
(* on a run id that is in the table (PRIMARY KEY).                         *)
(***************************************************************************)
RunStart(resume, rid, hardware, pfx, cfg, ename, pname) ==
    /\ pc["main"] = "idle"
    /\ conn = "none"
    /\ run_info = NoRun
    /\ ~FileLocked
    /\ InitializeDb(schema).exc = "none"
    /\ schema' = InitializeDb(schema).schema
    /\ prefix' = pfx
    /\ experiment_name' = ename
    /\ conn' = "open"
    /\ LET p == IF pname = NoName
                THEN [table |-> db_projects, id |-> NoId, uuids |-> uuids]
                ELSE CreateProject(db_projects, uuids, pname)
           e == CreateExperiment(p.table, db_experiments, p.uuids, ename,
                                 NoDescription, p.id)
           at == IF resume = "no" THEN {}
                 ELSE IF rid # NoRun THEN GetRunById(db_runs, rid)
                 ELSE GetLatestRun(db_runs, e.id)
           raises == StartRaises(resume, at # {}, rid \in Ids(db_runs))
       IN /\ db_projects' = p.table
          /\ db_experiments' = e.table
          /\ IF raises # "none"
             THEN /\ pc' = [pc EXCEPT !["main"] = "ret"]
                  /\ op' = [op EXCEPT !["main"] = "start"]
                  /\ loc' = [loc EXCEPT !["main"] = [NoLoc EXCEPT !.exc = raises]]
                  /\ uuids' = e.uuids
                  /\ config' = cfg
                  /\ UNCHANGED <<run_info, run_buffer, step_counter, resumed, hwVars,
                                 db_runs, db_metrics, resume_max, thread, stop_event>>
             ELSE /\ IF at # {}
                     THEN LET i == CHOOSE i \in at : TRUE
                              existing == db_runs[i]
                              stored == ConfigFromJson(existing.config)
                              merged == MergedConfig(stored, cfg)
                          IN /\ run_info' = existing.id
                             /\ db_runs' = [db_runs EXCEPT
                                    ![i].status = "running",
                                    ![i].ended_at = FALSE,
                                    ![i].last_heartbeat = wall,
                                    ![i].config = IF Truthy(cfg) THEN ConfigToJson(merged)
                                                  ELSE @]
                             /\ config' = IF Truthy(cfg) THEN merged ELSE stored
                             /\ step_counter' = ResumeCounter(existing.id)
                             /\ resumed' = TRUE
                             /\ resume_max' = GetMaxStep(existing.id)
                             /\ uuids' = e.uuids
                     ELSE /\ Len(db_runs) < MaxRuns
                          /\ run_info' = IF rid = NoRun THEN e.uuids + 1 ELSE rid
                          /\ uuids' = IF rid = NoRun THEN e.uuids + 1 ELSE e.uuids
                          /\ db_runs' = Append(db_runs,
                                 RunRow(run_info', e.id, "running", FALSE, ConfigToJson(cfg),
                                        TagsToJson(tags), notes, wall))
                          /\ config' = cfg
                          /\ UNCHANGED <<step_counter, resumed, resume_max>>
                  /\ run_buffer' = TRUE
                  /\ thread' = NewTimer
                  /\ stop_event' = FALSE
                  /\ hw_monitor' = hardware
                  /\ hw_thread' = IF hardware THEN "sampler" ELSE NoThread
                  /\ hw_stop_event' = FALSE
                  /\ hw_step' = 0
                  /\ pc' = [pc EXCEPT ![NewTimer] = "wait",
                                      !["sampler"] = IF hardware THEN "hw_first" ELSE @]
                  /\ UNCHANGED <<op, loc, db_metrics>>
    /\ uuids' <= MaxUuids
    /\ UNCHANGED <<envVars, clock, buffer, lock, histVars, tags, notes, lost,
                   explicit_runs, low_explicit, oper, ds>>

\* Run.start, lines 162-164, on a database file on which initialize_db
\* raises: start raises with the connection open and nothing else done
RunStartFails(pfx, cfg) ==
    /\ pc["main"] = "idle"
    /\ conn = "none"
    /\ run_info = NoRun
    /\ ~FileLocked
    /\ InitializeDb(schema).exc # "none"
    /\ schema' = InitializeDb(schema).schema
    /\ prefix' = pfx
    /\ config' = cfg
    /\ UNCHANGED experiment_name
    /\ conn' = "open"
    /\ pc' = [pc EXCEPT !["main"] = "ret"]
    /\ op' = [op EXCEPT !["main"] = "start"]
    /\ loc' = [loc EXCEPT !["main"] = [NoLoc EXCEPT !.exc = InitializeDb(schema).exc]]
    /\ UNCHANGED <<envVars, clock, bufVars, histVars, run_info, run_buffer, step_counter,
                   resumed, tags, notes, hwVars, dbVars, runHist, oper, ds>>

\* Run.start, line 163, while the file is locked: create_connection raises
\* OperationalError (database is locked) from its PRAGMA journal_mode=WAL
\* at once, without waiting for the busy timeout, and _conn stays None
RunStartLocked(pfx, cfg) ==
    /\ pc["main"] = "idle"
    /\ conn = "none"
    /\ run_info = NoRun
    /\ FileLocked
    /\ prefix' = pfx
    /\ config' = cfg
    /\ UNCHANGED experiment_name
    /\ pc' = [pc EXCEPT !["main"] = "ret"]
    /\ op' = [op EXCEPT !["main"] = "start"]
    /\ loc' = [loc EXCEPT !["main"] = [NoLoc EXCEPT !.exc = "OperationalError"]]
    /\ UNCHANGED <<envVars, clock, bufVars, histVars, conn, run_info, run_buffer,
                   step_counter, resumed, tags, notes, hwVars, dbVars, runHist, extVars>>

\* mutant: an explicit step never moves the counter backward
NextCounter_NeverBack(stepArg, counter) ==
    IF stepArg = NoStep THEN counter + 1
    ELSE IF stepArg + 1 > counter THEN stepArg + 1 ELSE counter

\* run.py lines 262-266: the step counter after log was called with stepArg
NextCounter(stepArg, counter) ==
    IF stepArg = NoStep THEN counter + 1 ELSE stepArg + 1

(***************************************************************************)
(* Run.log, run.py lines 252-277, up to the point where MetricBuffer.add   *)
(* waits for the lock.  stepArg is NoStep for step=None.                   *)
(***************************************************************************)
RunLogBy(t, metrics, stepArg) ==
    /\ pc[t] = "idle"
    /\ IF ~run_buffer
       THEN /\ pc' = [pc EXCEPT ![t] = "ret"]
            /\ op' = [op EXCEPT ![t] = "log"]
            /\ loc' = [loc EXCEPT ![t] = [NoLoc EXCEPT !.exc = "RuntimeError"]]
            /\ UNCHANGED <<envVars, clock, bufVars, histVars, step_counter,
                           explicit_runs, low_explicit>>
       ELSE LET step == IF stepArg = NoStep THEN step_counter ELSE stepArg
            IN /\ step_counter' = NextCounter(stepArg, step_counter)
               /\ explicit_runs' = IF stepArg = NoStep THEN explicit_runs
                                   ELSE explicit_runs \cup {run_info}
               /\ low_explicit' = (low_explicit
                                   \/ (resumed /\ stepArg # NoStep /\ stepArg < resume_max))
               /\ AddEnter(t, Prefixed(prefix, metrics), step, "log")
    /\ UNCHANGED <<argVars, conn, run_info, run_buffer, resumed, config, tags, notes, hwVars,
                   dbVars, lost, resume_max, extVars>>

\* the training thread calls log
RunLog(metrics, stepArg) == RunLogBy("main", metrics, stepArg)

\* Run.flush, run.py lines 317-320, on a Run that has its buffer
RunFlush ==
    /\ pc["main"] = "idle"
    /\ run_buffer
    /\ FlushEnter("main", "rflush")
    /\ UNCHANGED runAll

\* store/runs.py, update_heartbeat, lines 216-220: UPDATE runs SET
\* last_heartbeat = ? WHERE id = ?, with the time that was read
UpdateHeartbeat(runs, id, now) ==
    [i \in DOMAIN runs |-> IF runs[i].id = id
                           THEN [runs[i] EXCEPT !.last_heartbeat = now]
                           ELSE runs[i]]

\* store/runs.py, update_run_config, lines 280-284: UPDATE runs SET
\* config = ? WHERE id = ?
UpdateRunConfig(runs, id, c) ==
    [i \in DOMAIN runs |-> IF runs[i].id = id
                           THEN [runs[i] EXCEPT !.config = ConfigToJson(c)]
                           ELSE runs[i]]

\* Run.log_config(cfg), run.py lines 285-290: RuntimeError on a Run that is
\* not started, else the dict of the Run is updated and update_run_config
\* is called with the connection; no lock is taken
LogConfigEnter(cfg) ==
    /\ pc["main"] = "idle"
    /\ op' = [op EXCEPT !["main"] = "log_config"]
    /\ IF conn = "none" \/ run_info = NoRun
       THEN /\ pc' = [pc EXCEPT !["main"] = "ret"]
            /\ loc' = [loc EXCEPT !["main"] = [NoLoc EXCEPT !.exc = "RuntimeError"]]
            /\ UNCHANGED config
       ELSE /\ pc' = [pc EXCEPT !["main"] = "cfg_store"]
            /\ config' = Dict(DictUpdate(config.items, cfg.items))
            /\ UNCHANGED loc
    /\ UNCHANGED <<envVars, clock, bufVars, histVars, argVars, conn, run_info,
                   run_buffer, step_counter, resumed, tags, notes, hwVars, dbVars, runHist,
                   extVars>>

\* run.py line 291 with update_run_config: the statement and its commit
LogConfigStore ==
    /\ pc["main"] = "cfg_store"
    /\ db_runs' = UpdateRunConfig(db_runs, run_info, config)
    /\ pc' = [pc EXCEPT !["main"] = "ret"]
    /\ UNCHANGED <<envVars, clock, bufVars, op, loc, histVars, argVars, runVars, hwVars,
                   dbOther, db_metrics, runHist, extVars>>

\* store/runs.py, update_run_tags, lines 231-235: UPDATE runs SET
\* tags = ? WHERE id = ?
UpdateRunTags(runs, id, tgs) ==
    [i \in DOMAIN runs |-> IF runs[i].id = id
                           THEN [runs[i] EXCEPT !.tags = TagsToJson(tgs)]
                           ELSE runs[i]]

\* store/runs.py, update_run_notes, lines 246-250: UPDATE runs SET
\* notes = ? WHERE id = ?
UpdateRunNotes(runs, id, nts) ==
    [i \in DOMAIN runs |-> IF runs[i].id = id
                           THEN [runs[i] EXCEPT !.notes = nts]
                           ELSE runs[i]]

\* Run.set_tags(tgs), run.py lines 299-302: RuntimeError on a Run that is
\* not started, else the tags of the Run are replaced
SetTagsEnter(tgs) ==
    /\ pc["main"] = "idle"
    /\ op' = [op EXCEPT !["main"] = "set_tags"]
    /\ IF conn = "none" \/ run_info = NoRun
       THEN /\ pc' = [pc EXCEPT !["main"] = "ret"]
            /\ loc' = [loc EXCEPT !["main"] = [NoLoc EXCEPT !.exc = "RuntimeError"]]
            /\ UNCHANGED tags
       ELSE /\ pc' = [pc EXCEPT !["main"] = "tags_store"]
            /\ tags' = tgs
            /\ UNCHANGED loc
    /\ UNCHANGED <<envVars, clock, bufVars, histVars, argVars, conn, run_info,
                   run_buffer, step_counter, resumed, config, notes, hwVars, dbVars,
                   runHist, extVars>>

\* run.py line 303 with update_run_tags: the statement and its commit
SetTagsStore ==
    /\ pc["main"] = "tags_store"
    /\ db_runs' = UpdateRunTags(db_runs, run_info, tags)
    /\ pc' = [pc EXCEPT !["main"] = "ret"]
    /\ UNCHANGED <<envVars, clock, bufVars, op, loc, histVars, argVars, runVars, hwVars,
                   dbOther, db_metrics, runHist, extVars>>

\* mutant: the notes of the Run are replaced before the Run is looked at
SetNotesEnter_SetsFirst(nts) ==
    /\ pc["main"] = "idle"
    /\ op' = [op EXCEPT !["main"] = "set_notes"]
    /\ notes' = nts
    /\ IF conn = "none" \/ run_info = NoRun
       THEN /\ pc' = [pc EXCEPT !["main"] = "ret"]
            /\ loc' = [loc EXCEPT !["main"] = [NoLoc EXCEPT !.exc = "RuntimeError"]]
       ELSE /\ pc' = [pc EXCEPT !["main"] = "notes_store"]
            /\ UNCHANGED loc
    /\ UNCHANGED <<envVars, clock, bufVars, histVars, argVars, conn, run_info,
                   run_buffer, step_counter, resumed, config, tags, hwVars, dbVars,
                   runHist, extVars>>

\* Run.set_notes(nts), run.py lines 311-314: RuntimeError on a Run that is
\* not started, else the notes of the Run are replaced
SetNotesEnter(nts) ==
    /\ pc["main"] = "idle"
    /\ op' = [op EXCEPT !["main"] = "set_notes"]
    /\ IF conn = "none" \/ run_info = NoRun
       THEN /\ pc' = [pc EXCEPT !["main"] = "ret"]
            /\ loc' = [loc EXCEPT !["main"] = [NoLoc EXCEPT !.exc = "RuntimeError"]]
            /\ UNCHANGED notes
       ELSE /\ pc' = [pc EXCEPT !["main"] = "notes_store"]
            /\ notes' = nts
            /\ UNCHANGED loc
    /\ UNCHANGED <<envVars, clock, bufVars, histVars, argVars, conn, run_info,
                   run_buffer, step_counter, resumed, config, tags, hwVars, dbVars,
                   runHist, extVars>>

\* run.py line 315 with update_run_notes: the statement and its commit
SetNotesStore ==
    /\ pc["main"] = "notes_store"
    /\ db_runs' = UpdateRunNotes(db_runs, run_info, notes)
    /\ pc' = [pc EXCEPT !["main"] = "ret"]
    /\ UNCHANGED <<envVars, clock, bufVars, op, loc, histVars, argVars, runVars, hwVars,
                   dbOther, db_metrics, runHist, extVars>>

(***************************************************************************)
(* MetricBuffer._flush_locked lines 108-114 with Run._flush_metrics,       *)
(* run.py lines 344-353, as the callback.  Without a connection or a run   *)
(* the callback returns at once.  insert_metrics commits the whole batch   *)
(* (ok) or raises and stores nothing of it; it raises IntegrityError when  *)
(* the run is no row of runs (FOREIGN KEY, connection.py lines 47 and 94). *)
(* What insert_metrics raises is logged by _flush_locked (line 112), with  *)
(* the size of the batch, and raised again in strict mode.                 *)
(***************************************************************************)
RunFlushFn(t, ok) ==
    /\ pc[t] = "flush_fn"
    /\ lock = t
    /\ IF conn = "none" \/ run_info = NoRun
       THEN /\ ok
            /\ lost' = lost \cup {loc[t].batch[i] : i \in DOMAIN loc[t].batch}
            /\ UNCHANGED <<db_metrics, db_runs>>
            /\ AfterFlushFn(t, FALSE)
       ELSE IF ok /\ run_info \in Ids(db_runs)
       THEN /\ db_metrics' = db_metrics \o RowsOf(run_info, loc[t].batch)
            /\ db_runs' = UpdateHeartbeat(db_runs, run_info, wall)
            /\ UNCHANGED lost
            /\ AfterFlushFn(t, FALSE)
       ELSE /\ lost' = lost \cup {loc[t].batch[i] : i \in DOMAIN loc[t].batch}
            /\ UNCHANGED <<db_metrics, db_runs>>
            /\ AfterFlushFn(t, TRUE)
    /\ UNCHANGED <<delivered, argVars, runVars, hwVars, dbOther,
                   explicit_runs, resume_max, low_explicit, extVars>>

(***************************************************************************)
(* Run.finish, run.py lines 322-342                                        *)
(***************************************************************************)
\* lines 332-333 with MetricBuffer.stop lines 54-58: without a buffer go on
\* to finish_run; stop() returns at once when the buffer has no thread
StopBuffer ==
    IF ~run_buffer
    THEN /\ pc' = [pc EXCEPT !["main"] = "fin_status"]
         /\ UNCHANGED stop_event
    ELSE IF thread = NoThread
    THEN /\ pc' = [pc EXCEPT !["main"] = "ret"]
         /\ UNCHANGED stop_event
    ELSE /\ pc' = [pc EXCEPT !["main"] = "stop_join"]
         /\ stop_event' = TRUE

\* finish(status) is entered, from __exit__ with exc_type or from the
\* caller: HardwareMonitor.stop() sets its event and joins (hardware.py
\* lines 105-109), or there is no monitor
FinishEnter(status, exc_type) ==
    /\ pc["main"] = "idle"
    /\ op' = [op EXCEPT !["main"] = "finish"]
    /\ loc' = [loc EXCEPT !["main"] = [NoLoc EXCEPT !.status = status,
                                                   !.exc_type = exc_type]]
    /\ IF hw_monitor
       THEN /\ hw_stop_event' = TRUE
            /\ pc' = [pc EXCEPT !["main"] = "fin_hw_join"]
            /\ UNCHANGED stop_event
       ELSE /\ StopBuffer
            /\ UNCHANGED hw_stop_event
    /\ UNCHANGED <<envVars, clock, buffer, lock, thread, histVars, argVars,
                   runVars, hw_monitor, hw_thread, hw_step, dbVars, runHist, extVars>>

\* the caller calls finish(status)
FinishCall(status) == FinishEnter(status, NotInExit)

\* Run.__exit__, run.py lines 366-371: the status for the exc_type the
\* with-block was left with, "None" for a block that ended normally
ExitStatus(exc_type) ==
    IF exc_type = "KeyboardInterrupt" THEN "interrupted"
    ELSE IF exc_type # "None" THEN "failed"
    ELSE "completed"

\* start() has returned the Run and no finish has closed its connection
Started == conn = "open" /\ run_info # NoRun

\* the with-block of a Run is left, which __enter__ started and nothing
\* has finished: __exit__ calls finish
ScopeExit(exc_type) ==
    /\ Started
    /\ FinishEnter(ExitStatus(exc_type), exc_type)

\* lightning.py, StonksLogger.finalize, line 222
MappedStatus(status) == IF status = "success" THEN "completed" ELSE status

\* StonksLogger.finalize(status), lightning.py lines 214-225, of a logger
\* whose Run is started and not finished
Finalize(status) ==
    /\ Started
    /\ FinishCall(MappedStatus(status))

\* the join of the sampling thread returns: the thread has ended, or it is
\* inside the log callback and the timeout elapses; then lines 330-333
FinishHwJoin ==
    /\ pc["main"] = "fin_hw_join"
    /\ pc["sampler"] \in {"dead", "crashed", "add_lock", "flush_fn"}
    /\ hw_monitor' = FALSE
    /\ hw_thread' = NoThread
    /\ StopBuffer
    /\ UNCHANGED <<envVars, clock, buffer, lock, thread, op, loc, histVars, argVars,
                   runVars, hw_stop_event, hw_step, dbVars, runHist, extVars>>

\* buffer.stop() has returned: line 334
FinishAfterStop ==
    /\ pc["main"] = "ret"
    /\ op["main"] = "finish"
    /\ loc["main"].exc = "none"
    /\ run_buffer' = FALSE
    /\ pc' = [pc EXCEPT !["main"] = "fin_status"]
    /\ UNCHANGED <<envVars, clock, bufVars, op, loc, histVars, argVars, conn,
                   run_info, step_counter, resumed, config, tags, notes, hwVars, dbVars, runHist,
                   extVars>>

\* store/runs.py, finish_run, lines 184-188: UPDATE runs SET status = ?,
\* ended_at = ? WHERE id = ?
FinishRun(runs, id, status) ==
    [i \in DOMAIN runs |-> IF runs[i].id = id
                           THEN [runs[i] EXCEPT !.status = status, !.ended_at = TRUE]
                           ELSE runs[i]]

\* mutant: finish_run is called without a look at the connection
FinishStatus_IgnoresConn ==
    /\ pc["main"] = "fin_status"
    /\ IF run_info # NoRun
       THEN db_runs' = FinishRun(db_runs, run_info, loc["main"].status)
       ELSE UNCHANGED db_runs
    /\ pc' = [pc EXCEPT !["main"] = "fin_close"]
    /\ UNCHANGED <<envVars, clock, bufVars, op, loc, histVars, argVars,
                   runVars, hwVars, dbOther, db_metrics, runHist, extVars>>

\* lines 336-338
FinishStatus ==
    /\ pc["main"] = "fin_status"
    /\ IF conn = "open" /\ run_info # NoRun
       THEN db_runs' = FinishRun(db_runs, run_info, loc["main"].status)
       ELSE UNCHANGED db_runs
    /\ pc' = [pc EXCEPT !["main"] = "fin_close"]
    /\ UNCHANGED <<envVars, clock, bufVars, op, loc, histVars, argVars,
                   runVars, hwVars, dbOther, db_metrics, runHist, extVars>>

\* lines 340-342
FinishClose ==
    /\ pc["main"] = "fin_close"
    /\ conn' = "none"
    /\ pc' = [pc EXCEPT !["main"] = "ret"]
    /\ op' = [op EXCEPT !["main"] = "finish_end"]
    /\ UNCHANGED <<envVars, clock, bufVars, loc, histVars, argVars, run_info,
                   run_buffer, step_counter, resumed, config, tags, notes, hwVars, dbVars, runHist,
                   extVars>>

\* the caller of start, log, log_config, set_tags, set_notes, flush or
\* finish has the result, or the
\* exception that finish lets through from buffer.stop()
RunReturnBy(t) ==
    /\ pc[t] = "ret"
    /\ \/ op[t] \in {"start", "log", "rflush", "finish_end", "log_config", "set_tags",
                   "set_notes"}
       \/ op[t] = "finish" /\ loc[t].exc # "none"
    /\ pc' = [pc EXCEPT ![t] = "idle"]
    /\ op' = [op EXCEPT ![t] = "none"]
    /\ loc' = [loc EXCEPT ![t] = NoLoc]
    /\ UNCHANGED <<envVars, clock, bufVars, histVars, runAll>>

RunReturn == RunReturnBy("main")

(***************************************************************************)
(* HardwareMonitor._poll_loop, hardware.py lines 186-198, with             *)
(* log_fn = MetricBuffer.add (run.py line 198)                             *)
(***************************************************************************)
\* mutant: the sample is logged with the step counter of the Run
HwPollBy_TrainingStep(s, metrics) ==
    /\ \/ pc[s] = "hw_first"
       \/ pc[s] = "hw_wait" /\ ~hw_stop_event
    /\ IF metrics = <<>>
       THEN /\ pc' = [pc EXCEPT ![s] = "hw_wait"]
            /\ UNCHANGED <<envVars, clock, bufVars, op, loc, histVars>>
       ELSE AddEnter(s, metrics, step_counter, "poll")
    /\ UNCHANGED runAll

\* the first poll of thread s, or stop_event.wait(interval) times out:
\* _collect, and log_fn if anything was collected
HwPollBy(s, metrics) ==
    /\ \/ pc[s] = "hw_first"
       \/ pc[s] = "hw_wait" /\ ~hw_stop_event
    /\ IF metrics = <<>>
       THEN /\ pc' = [pc EXCEPT ![s] = "hw_wait"]
            /\ UNCHANGED <<envVars, clock, bufVars, op, loc, histVars>>
       ELSE AddEnter(s, metrics, hw_step, "poll")
    /\ UNCHANGED runAll

\* the thread of the monitor of a Run
HwPoll(metrics) == HwPollBy("sampler", metrics)

\* log_fn has returned to thread s: _step += 1 and wait; or it has raised,
\* which ends the thread
HwReturnBy(s) ==
    /\ pc[s] = "ret"
    /\ op[s] = "poll"
    /\ op' = [op EXCEPT ![s] = "none"]
    /\ loc' = [loc EXCEPT ![s] = NoLoc]
    /\ IF loc[s].exc # "none"
       THEN /\ pc' = [pc EXCEPT ![s] = "crashed"]
            /\ UNCHANGED hw_step
       ELSE /\ pc' = [pc EXCEPT ![s] = "hw_wait"]
            /\ hw_step' = hw_step + 1
    /\ UNCHANGED <<envVars, clock, bufVars, histVars, argVars, runVars,
                   hw_monitor, hw_thread, hw_stop_event, dbVars, runHist, extVars>>

HwReturn == HwReturnBy("sampler")

\* stop_event.wait(interval) returns True to thread s: the loop ends
HwExitBy(s) ==
    /\ pc[s] = "hw_wait"
    /\ hw_stop_event
    /\ pc' = [pc EXCEPT ![s] = "dead"]
    /\ UNCHANGED <<envVars, clock, bufVars, op, loc, histVars, runAll>>

HwExit == HwExitBy("sampler")

(***************************************************************************)
(* HardwareMonitor.start and stop, hardware.py lines 52-119, called by     *)
(* "main" on a monitor of its own, whose log_fn is MetricBuffer.add        *)
(***************************************************************************)
\* the thread a start() creates: a sampler thread that does not exist
NewSampler == IF pc["sampler"] = "idle" THEN "sampler" ELSE "sampler2"

\* start(), lines 59-96
HwStart ==
    /\ pc["main"] = "idle"
    /\ IF hw_thread # NoThread
       THEN UNCHANGED <<hw_thread, hw_stop_event, hw_step, pc>>
       ELSE /\ pc[NewSampler] = "idle"
            /\ hw_stop_event' = FALSE
            /\ hw_step' = 0
            /\ hw_thread' = NewSampler
            /\ pc' = [pc EXCEPT ![NewSampler] = "hw_first"]
    /\ UNCHANGED <<envVars, clock, bufVars, op, loc, histVars, argVars, runVars,
                   hw_monitor, dbVars, runHist, extVars>>

\* stop(), lines 105-108: nothing without a thread; else the event is set
\* and the thread is joined
HwStop ==
    /\ pc["main"] = "idle"
    /\ IF hw_thread = NoThread
       THEN UNCHANGED <<hw_stop_event, pc, op>>
       ELSE /\ hw_stop_event' = TRUE
            /\ pc' = [pc EXCEPT !["main"] = "hw_join"]
            /\ op' = [op EXCEPT !["main"] = "hw_stop"]
    /\ UNCHANGED <<envVars, clock, bufVars, loc, histVars, argVars, runVars,
                   hw_monitor, hw_thread, hw_step, dbVars, runHist, extVars>>

\* stop(), lines 109-119: _thread.join(timeout=5.0) returns, because the
\* thread has ended or because it is inside log_fn and the timeout elapses;
\* _thread = None, and stop() returns.  A thread that has ended is gone.
HwStopJoin ==
    /\ pc["main"] = "hw_join"
    /\ pc[hw_thread] \in {"dead", "crashed", "add_lock", "flush_fn"}
    /\ hw_thread' = NoThread
    /\ pc' = [pc EXCEPT !["main"] = "idle",
                        ![hw_thread] = IF @ \in {"dead", "crashed"} THEN "idle" ELSE @]
    /\ op' = [op EXCEPT !["main"] = "none"]
    /\ UNCHANGED <<envVars, clock, bufVars, loc, histVars, argVars, runVars,
                   hw_monitor, hw_stop_event, hw_step, dbVars, runHist, extVars>>

(***************************************************************************)
(* The process ends between two calls of the training thread: the Run      *)
(* object, its buffer and its daemon threads (buffer.py line 50,           *)
(* hardware.py line 95) are gone, the store stays.  The next Run starts in *)
(* a new process.                                                          *)
(***************************************************************************)
Exit ==
    /\ pc["main"] = "idle"
    /\ conn = "open" \/ run_info # NoRun
    /\ buffer' = <<>>
    /\ lock' = NoThread
    /\ thread' = NoThread
    /\ stop_event' = FALSE
    /\ pc' = [t \in Threads |-> IF t \in Timers THEN "unborn" ELSE "idle"]
    /\ op' = [t \in Threads |-> "none"]
    /\ loc' = [t \in Threads |-> NoLoc]
    /\ accepted' = <<>>
    /\ delivered' = <<>>
    /\ callSnap' = NoSnap
    /\ conn' = "none"
    /\ run_info' = NoRun
    /\ run_buffer' = FALSE
    /\ step_counter' = 0
    /\ resumed' = FALSE
    /\ hw_monitor' = FALSE
    /\ hw_thread' = NoThread
    /\ hw_stop_event' = FALSE
    /\ hw_step' = 0
    /\ lost' = {}
    /\ resume_max' = -1
    /\ low_explicit' = FALSE
    /\ prefix' = ""
    /\ experiment_name' = ""
    /\ config' = NoneConfig
    /\ tags' = NoneTags
    /\ notes' = NoneNotes
    /\ UNCHANGED <<envVars, clock, dbVars, explicit_runs, extVars>>

(***************************************************************************)
(* The operator: a second process with its own connection, which calls the *)
(* store functions or runs the CLI commands delete and gc (cli.py).  A     *)
(* write of the operator and a write of the Run are serialised by SQLite;  *)
(* between two commits of one process the other may commit.                *)
(***************************************************************************)
\* the ids of the runs of an experiment, latest first (ORDER BY created_at
\* DESC), and those of the runs with one of the statuses
RECURSIVE RunIdsWhere(_, _, _)
RunIdsWhere(runs, experiment_ids, statuses) ==
    IF runs = <<>> THEN <<>>
    ELSE LET r == runs[Len(runs)]
             rest == RunIdsWhere(SubSeq(runs, 1, Len(runs) - 1), experiment_ids, statuses)
         IN IF r.experiment_id \in experiment_ids /\ r.status \in statuses
            THEN <<r.id>> \o rest ELSE rest

\* every status string a run row can hold
AnyStatus == {"running", "completed", "failed", "interrupted", "finished"}

\* the elements of a sequence
Range(q) == {q[i] : i \in DOMAIN q}

\* store/runs.py, delete_run, lines 297-302: the metrics of the run and the
\* run are deleted in one transaction
DeleteRun(runs, metrics, id) ==
    [runs |-> SelectSeq(runs, LAMBDA r : r.id # id),
     metrics |-> SelectSeq(metrics, LAMBDA m : m.run # id)]

\* the operator calls create_project(name)
OpCreateProject(name) ==
    /\ oper.pc = "idle"
    /\ LET c == CreateProject(db_projects, uuids, name)
       IN /\ c.uuids <= MaxUuids
          /\ db_projects' = c.table
          /\ uuids' = c.uuids
          /\ oper' = [NoOper EXCEPT !.pc = "done", !.cmd = "create_project",
                                    !.name = name, !.result = c.id, !.exc = c.exc]
    /\ UNCHANGED <<envVars, clock, bufVars, thrVars, histVars, argVars, runVars, hwVars,
                   db_experiments, db_runs, db_metrics, runHist, schema, ds>>

\* the operator calls create_experiment(name, description, project_id)
OpCreateExperiment(name, description, project_id) ==
    /\ oper.pc = "idle"
    /\ LET c == CreateExperiment(db_projects, db_experiments, uuids, name, description,
                                 project_id)
       IN /\ c.uuids <= MaxUuids
          /\ db_experiments' = c.table
          /\ uuids' = c.uuids
          /\ oper' = [NoOper EXCEPT !.pc = "done", !.cmd = "create_experiment",
                                    !.name = name, !.target = project_id,
                                    !.result = c.id, !.exc = c.exc]
    /\ UNCHANGED <<envVars, clock, bufVars, thrVars, histVars, argVars, runVars, hwVars,
                   db_projects, db_runs, db_metrics, runHist, schema, ds>>

\* cli.py, delete_command, lines 209-219: the id is that of a run
OpDeleteRun(id) ==
    /\ oper.pc = "idle"
    /\ id \in Ids(db_runs)
    /\ LET d == DeleteRun(db_runs, db_metrics, id)
       IN /\ db_runs' = d.runs
          /\ db_metrics' = d.metrics
    /\ oper' = [NoOper EXCEPT !.pc = "done", !.cmd = "delete_run", !.target = id]
    /\ UNCHANGED <<envVars, clock, bufVars, thrVars, histVars, argVars, runVars, hwVars,
                   dbOther, runHist, schema, ds>>

\* cli.py, delete_command, lines 222-241, and store/experiments.py,
\* delete_experiment, lines 163-168: the experiment is found and the ids
\* of its runs are read
OpDeleteExperimentSelect(id) ==
    /\ oper.pc = "idle"
    /\ id \in Ids(db_experiments)
    /\ oper' = [NoOper EXCEPT !.pc = "del_exp", !.cmd = "delete_experiment",
                              !.target = id,
                              !.runs = RunIdsWhere(db_runs, {id}, AnyStatus)]
    /\ UNCHANGED <<envVars, clock, bufVars, thrVars, histVars, argVars, runVars, hwVars,
                   dbVars, runHist, schema, ds>>

\* delete_experiment, lines 169-173, one transaction: the metrics of the
\* runs that were read, the runs of the experiment, the experiment.  The
\* DELETE of the runs raises IntegrityError when a run that was not read
\* has metrics (FOREIGN KEY); the command ends with it and nothing of the
\* transaction is committed.
OpDeleteExperimentDelete ==
    /\ oper.pc = "del_exp"
    /\ LET mine == {db_runs[i].id : i \in {j \in DOMAIN db_runs :
                                              db_runs[j].experiment_id = oper.target}}
           unread == mine \ Range(oper.runs)
       IN IF \E i \in DOMAIN db_metrics : db_metrics[i].run \in unread
          THEN /\ oper' = [oper EXCEPT !.pc = "done", !.exc = "IntegrityError"]
               /\ UNCHANGED dbVars
          ELSE /\ oper' = [oper EXCEPT !.pc = "done"]
               /\ db_metrics' = SelectSeq(db_metrics, LAMBDA m : m.run \notin mine)
               /\ db_runs' = SelectSeq(db_runs, LAMBDA r : r.experiment_id # oper.target)
               /\ db_experiments' = SelectSeq(db_experiments,
                                              LAMBDA e : e.id # oper.target)
               /\ UNCHANGED <<db_projects, uuids>>
    /\ UNCHANGED <<envVars, clock, bufVars, thrVars, histVars, argVars, runVars, hwVars,
                   runHist, schema, ds>>

\* cli.py, gc_command, lines 304-312: the runs with one of the statuses
\* are listed, with the status each has now
OpGcList(statuses) ==
    /\ oper.pc = "idle"
    /\ RunIdsWhere(db_runs, Ids(db_experiments), statuses) # <<>>
    /\ oper' = [NoOper EXCEPT !.pc = "gc", !.cmd = "gc",
                              !.runs = RunIdsWhere(db_runs, Ids(db_experiments), statuses),
                              !.running = Range(RunIdsWhere(db_runs, Ids(db_experiments),
                                                            {"running"}))]
    /\ UNCHANGED <<envVars, clock, bufVars, thrVars, histVars, argVars, runVars, hwVars,
                   dbVars, runHist, schema, ds>>

\* gc_command, lines 333-336: the next listed run; finish_run with
\* interrupted when it was listed as running
OpGcFinish ==
    /\ oper.pc = "gc"
    /\ oper' = [oper EXCEPT !.pc = "gc_delete", !.target = Head(oper.runs)]
    /\ IF Head(oper.runs) \in oper.running
       THEN db_runs' = FinishRun(db_runs, Head(oper.runs), "interrupted")
       ELSE UNCHANGED db_runs
    /\ UNCHANGED <<envVars, clock, bufVars, thrVars, histVars, argVars, runVars, hwVars,
                   dbOther, db_metrics, runHist, schema, ds>>

\* gc_command, line 337: delete_run of that run
OpGcDelete ==
    /\ oper.pc = "gc_delete"
    /\ LET d == DeleteRun(db_runs, db_metrics, oper.target)
       IN /\ db_runs' = d.runs
          /\ db_metrics' = d.metrics
    /\ oper' = [oper EXCEPT !.runs = Tail(oper.runs),
                            !.pc = IF Tail(oper.runs) = <<>> THEN "done" ELSE "gc"]
    /\ UNCHANGED <<envVars, clock, bufVars, thrVars, histVars, argVars, runVars, hwVars,
                   dbOther, runHist, schema, ds>>

\* cli.py, _get_conn, lines 43-45: a command opens the database file and
\* calls initialize_db
OpInitBegin ==
    /\ oper.pc = "idle"
    /\ oper' = [NoOper EXCEPT !.pc = "init_schema", !.cmd = "initialize_db", !.stmt = 1]
    /\ UNCHANGED <<envVars, clock, bufVars, thrVars, histVars, argVars, runVars, hwVars,
                   dbVars, runHist, schema, ds>>

\* initialize_db, lines 108-110: the next schema statement; an exception
\* ends the command
OpInitStatement ==
    /\ oper.pc = "init_schema"
    /\ LET r == Execute(schema, SchemaStatements[oper.stmt])
       IN /\ schema' = r.schema
          /\ oper' = IF r.exc # "none" THEN [oper EXCEPT !.pc = "done", !.exc = r.exc]
                     ELSE IF oper.stmt = Len(SchemaStatements)
                     THEN [oper EXCEPT !.pc = "init_migrate", !.stmt = 1]
                     ELSE [oper EXCEPT !.stmt = @ + 1]
    /\ UNCHANGED <<envVars, clock, bufVars, thrVars, histVars, argVars, runVars, hwVars,
                   dbVars, runHist, ds>>

\* initialize_db, lines 113-122: the next migration
OpInitMigrate ==
    /\ oper.pc = "init_migrate"
    /\ schema' = Migrate(schema, <<MigrationColumns[oper.stmt]>>)
    /\ oper' = IF oper.stmt = Len(MigrationColumns) THEN [oper EXCEPT !.pc = "done"]
               ELSE [oper EXCEPT !.stmt = @ + 1]
    /\ UNCHANGED <<envVars, clock, bufVars, thrVars, histVars, argVars, runVars, hwVars,
                   dbVars, runHist, ds>>

(***************************************************************************)
(* A second Run, in another thread, with its own connection to the same    *)
(* database file and its own MetricBuffer: oper.result is the id of its    *)
(* run, oper.buffer its buffer, oper.logged the points its log calls have  *)
(* had accepted.  A write of either Run is one transaction; SQLite lets    *)
(* the other wait for it.                                                  *)
(***************************************************************************)
\* Run.start, line 163, store/connection.py lines 90-92: the file is in WAL
\* mode, or is not yet and PRAGMA journal_mode=WAL locks it for the switch
PeerConnect ==
    /\ oper.pc = "idle"
    /\ oper' = [NoOper EXCEPT !.pc = IF schema = NoSchema THEN "pragma" ELSE "connected",
                              !.cmd = "run"]
    /\ UNCHANGED <<envVars, clock, bufVars, thrVars, histVars, argVars, runVars, hwVars,
                   dbVars, runHist, schema, ds>>

\* Run.start, lines 164-194, without project and without resume:
\* initialize_db, create_experiment, create_run, and the buffer is started
PeerStart(ename) ==
    /\ oper.pc \in {"pragma", "connected"}
    /\ InitializeDb(schema).exc = "none"
    /\ schema' = InitializeDb(schema).schema
    /\ LET e == CreateExperiment(db_projects, db_experiments, uuids, ename,
                                 NoDescription, NoId)
       IN /\ e.uuids + 1 <= MaxUuids
          /\ db_experiments' = e.table
          /\ uuids' = e.uuids + 1
          /\ db_runs' = Append(db_runs, RunRow(e.uuids + 1, e.id, "running", FALSE,
                                               ConfigToJson(NoneConfig),
                                               TagsToJson(NoneTags), NoneNotes, wall))
          /\ oper' = [oper EXCEPT !.pc = "running", !.name = ename,
                                  !.result = e.uuids + 1]
    /\ UNCHANGED <<envVars, clock, bufVars, thrVars, histVars, argVars, runVars, hwVars,
                   db_projects, db_metrics, runHist, ds>>

\* Run.log(metrics) without a step, lines 262-273, and MetricBuffer.add
\* below max_size: the point is appended to the buffer; target is the step
\* counter start() left
PeerLog(metrics) ==
    /\ oper.pc = "running"
    /\ clock < MaxAdds
    /\ clock' = clock + 1
    /\ LET entries == AddLoop(metrics, 1, oper.target + Len(oper.logged), clock, strict,
                              <<>>).entries
       IN oper' = [oper EXCEPT !.buffer = @ \o entries, !.logged = @ \o entries]
    /\ UNCHANGED <<envVars, bufVars, thrVars, histVars, argVars, runVars, hwVars,
                   dbVars, runHist, schema, ds>>

\* the timer of its buffer: MetricBuffer.flush with Run._flush_metrics,
\* run.py lines 350-353; insert_metrics commits the batch
PeerFlush ==
    /\ oper.pc = "running"
    /\ oper.buffer # <<>>
    /\ db_metrics' = db_metrics \o RowsOf(oper.result, oper.buffer)
    /\ db_runs' = UpdateHeartbeat(db_runs, oper.result, wall)
    /\ oper' = [oper EXCEPT !.buffer = <<>>]
    /\ UNCHANGED <<envVars, clock, bufVars, thrVars, histVars, argVars, runVars, hwVars,
                   dbOther, runHist, schema, ds>>

\* Run.finish(status), lines 332-342: the final flush of buffer.stop(),
\* finish_run and close
PeerFinish(status) ==
    /\ oper.pc = "running"
    /\ db_metrics' = db_metrics \o RowsOf(oper.result, oper.buffer)
    /\ db_runs' = FinishRun(IF oper.buffer = <<>> THEN db_runs
                             ELSE UpdateHeartbeat(db_runs, oper.result, wall),
                             oper.result, status)
    /\ oper' = [oper EXCEPT !.buffer = <<>>, !.pc = "done"]
    /\ UNCHANGED <<envVars, clock, bufVars, thrVars, histVars, argVars, runVars, hwVars,
                   dbOther, runHist, schema, ds>>

\* Run.start with resume=True and without run_id, lines 164-175 and
\* 230-235, when the experiment has a run: the latest run is reopened,
\* whatever its status, and the step counter continues after its steps
PeerResume(ename) ==
    /\ oper.pc \in {"pragma", "connected"}
    /\ InitializeDb(schema).exc = "none"
    /\ schema' = InitializeDb(schema).schema
    /\ LET e == CreateExperiment(db_projects, db_experiments, uuids, ename,
                                 NoDescription, NoId)
           at == GetLatestRun(db_runs, e.id)
       IN /\ at # {}
          /\ LET i == CHOOSE i \in at : TRUE
             IN /\ db_runs' = [db_runs EXCEPT ![i].status = "running",
                                              ![i].ended_at = FALSE,
                                              ![i].last_heartbeat = wall]
                /\ oper' = [oper EXCEPT !.pc = "running", !.name = ename,
                                        !.result = db_runs[i].id,
                                        !.target = GetMaxStep(db_runs[i].id) + 1]
    /\ UNCHANGED <<envVars, clock, bufVars, thrVars, histVars, argVars, runVars, hwVars,
                   dbOther, db_metrics, runHist, ds>>

\* the timer of its buffer, Run._flush_metrics, run.py lines 352-353:
\* insert_metrics commits the batch, and update_heartbeat reads the time
\* (store/runs.py line 218) for an UPDATE that waits for the write lock
PeerInsert ==
    /\ oper.pc = "running"
    /\ oper.buffer # <<>>
    /\ db_metrics' = db_metrics \o RowsOf(oper.result, oper.buffer)
    /\ oper' = [oper EXCEPT !.buffer = <<>>, !.pc = "beat", !.stamp = wall]
    /\ UNCHANGED <<envVars, clock, bufVars, thrVars, histVars, argVars, runVars, hwVars,
                   dbOther, db_runs, runHist, schema, ds>>

\* update_heartbeat, store/runs.py lines 216-220: the UPDATE is committed
\* with the time that was read
PeerBeat ==
    /\ oper.pc = "beat"
    /\ db_runs' = UpdateHeartbeat(db_runs, oper.result, oper.stamp)
    /\ oper' = [oper EXCEPT !.pc = "running"]
    /\ UNCHANGED <<envVars, clock, bufVars, thrVars, histVars, argVars, runVars, hwVars,
                   dbOther, db_metrics, runHist, schema, ds>>

\* time passes: time.time() of the store functions never goes back
ClockTick ==
    /\ wall < MaxAdds
    /\ wall' = wall + 1
    /\ UNCHANGED <<strict, clock, bufVars, thrVars, histVars, runAll>>

\* the call or the command of the operator has ended
OpReturn ==
    /\ oper.pc = "done"
    /\ oper' = NoOper
    /\ UNCHANGED <<envVars, clock, bufVars, thrVars, histVars, argVars, runVars, hwVars,
                   dbVars, runHist, schema, ds>>

(***************************************************************************)
(* A client of the store functions: thread "worker" with a connection of   *)
(* its own calls create_experiment(conn, name) and create_project(conn,    *)
(* name).  The INSERT begins a transaction and takes the write lock of the *)
(* database file; conn.commit() ends it.  An INSERT that fails on the      *)
(* UNIQUE name leaves the connection inside the transaction: the handler   *)
(* reads the row back under the lock, and the lock stays until the         *)
(* connection commits, rolls back or is closed.                            *)
(***************************************************************************)
\* mutant: the failed INSERT gives the write lock back
WriteLocked_FailedInsertUnlocks == FALSE

\* the connection of "worker" holds the write lock of the database file
WriteLocked == pc["worker"] \in {"conflict", "ret_txn"}

\* the table a create call of "worker" works on
TableOf(cmd) == IF cmd = "create_project" THEN db_projects ELSE db_experiments

\* create_experiment, experiments.py lines 48-66, and create_project,
\* projects.py lines 27-38: the INSERT commits a new row and the call
\* returns it, or raises IntegrityError on the name
StoreCreateInsert(cmd, name) ==
    /\ pc["worker"] = "idle"
    /\ op' = [op EXCEPT !["worker"] = cmd]
    /\ IF ByName(TableOf(cmd), name) # {}
       THEN /\ pc' = [pc EXCEPT !["worker"] = "conflict"]
            /\ loc' = [loc EXCEPT !["worker"].name = name]
            /\ UNCHANGED dbVars
       ELSE LET c == IF cmd = "create_project"
                     THEN CreateProject(db_projects, uuids, name)
                     ELSE CreateExperiment(db_projects, db_experiments, uuids, name,
                                           NoDescription, NoId)
            IN /\ c.uuids <= MaxUuids
               /\ uuids' = c.uuids
               /\ IF cmd = "create_project"
                  THEN db_projects' = c.table /\ UNCHANGED db_experiments
                  ELSE db_experiments' = c.table /\ UNCHANGED db_projects
               /\ pc' = [pc EXCEPT !["worker"] = "ret"]
               /\ loc' = [loc EXCEPT !["worker"].name = name, !["worker"].result = c.id]
               /\ UNCHANGED <<db_runs, db_metrics>>
    /\ UNCHANGED <<envVars, clock, bufVars, histVars, argVars, runVars, hwVars, runHist,
                   extVars>>

\* experiments.py lines 67-75, projects.py lines 39-41: the handler selects
\* the row with the name and returns it; row["id"] raises TypeError when
\* there is no such row
StoreCreateFetch ==
    /\ pc["worker"] = "conflict"
    /\ LET at == ByName(TableOf(op["worker"]), loc["worker"].name)
       IN loc' = [loc EXCEPT !["worker"].result =
                                  IF at = {} THEN NoId
                                  ELSE TableOf(op["worker"])[CHOOSE i \in at : TRUE].id,
                             !["worker"].exc = IF at = {} THEN "TypeError" ELSE "none"]
    /\ pc' = [pc EXCEPT !["worker"] = "ret_txn"]
    /\ UNCHANGED <<envVars, clock, bufVars, op, histVars, runAll>>

\* the caller has the result and goes on; its connection's next commit,
\* rollback or close ends a transaction that is open
StoreReturn ==
    /\ pc["worker"] \in {"ret", "ret_txn"}
    /\ op["worker"] \in {"create_experiment", "create_project"}
    /\ pc' = [pc EXCEPT !["worker"] = "idle"]
    /\ op' = [op EXCEPT !["worker"] = "none"]
    /\ loc' = [loc EXCEPT !["worker"] = NoLoc]
    /\ UNCHANGED <<envVars, clock, bufVars, histVars, runAll>>

\* a write of the operator while another connection holds the write lock
\* waits (timeout=10.0, connection.py line 90) and then raises
\* OperationalError: database is locked
OpBusy(cmd, name) ==
    /\ WriteLocked
    /\ \/ /\ oper.pc = "idle"
          /\ cmd \in {"create_experiment", "create_project"}
          /\ oper' = [NoOper EXCEPT !.pc = "done", !.cmd = cmd, !.name = name,
                                    !.exc = "OperationalError"]
       \/ /\ oper.pc = "del_exp"
          /\ cmd = "delete_experiment"
          /\ oper' = [oper EXCEPT !.pc = "done", !.exc = "OperationalError"]
    /\ UNCHANGED <<envVars, clock, bufVars, thrVars, histVars, argVars, runVars, hwVars,
                   dbVars, runHist, schema, ds>>

\* what the threads of a Run's buffer do, with a store whose inserts end as
\* oks says
BufferSteps(oks) ==
    \/ \E t \in Producers : AddLocked(t)
    \/ \E t \in Producers \cup Timers : FlushLocked(t)
    \/ \E t \in Producers \cup Timers, ok \in oks : RunFlushFn(t, ok)
    \/ \E tm \in Timers : Tick(tm)
    \/ \E tm \in Timers : LoopExit(tm)

\* what the training thread does with a Run constructed with hardware \in hw
RunSteps(hw) ==
    \/ \E r \in ResumeModes, rid \in {NoRun} \cup Ids(db_runs), h \in hw,
          pfx \in Prefixes : RunStart(r, rid, h, pfx, NoneConfig, "e", NoName)
    \/ \E m \in RunDicts, s \in StepArgs : RunLog(m, s)
    \/ RunFlush
    \/ \E st \in FinishStatuses : FinishCall(st)
    \/ StopJoin
    \/ FinishAfterStop
    \/ FinishStatus
    \/ FinishClose
    \/ RunReturn

\* one process: one Run, with or without hardware monitoring
NextRun ==
    \/ RunSteps(BOOLEAN)
    \/ BufferSteps(BOOLEAN)
    \/ FinishHwJoin
    \/ \E m \in Collected : HwPoll(m)
    \/ HwReturn
    \/ HwExit

SpecRun == InitBuf /\ [][NextRun]_vars

\* processes one after the other on one store whose inserts succeed, each
\* with one Run without hardware monitoring
NextResume ==
    \/ RunSteps({FALSE})
    \/ BufferSteps({TRUE})
    \/ Exit

SpecResume == InitBuf /\ [][NextResume]_vars

\* the config argument of Run: None, or a dict
ConfigArgs ==
    {NoneConfig, Dict(<<Item("lr", 1)>>), Dict(<<Item("ep", 2), Item("lr", 3)>>)}
\* the experiment_name argument of Run
ExperimentNames == {"e", "f"}
\* the run_id argument of Run: None, an id of the caller's choosing, the id
\* of a run that is in the store
RunIdArgs == {NoRun, UserId} \cup Ids(db_runs)

\* processes one after the other on a store whose writes succeed, each with
\* one Run that is started, finished before the timer of its buffer fires
\* and left, with nothing logged
StartToExit ==
    \/ FinishCall("completed")
    \/ StopJoin
    \/ FlushLocked("main")
    \/ \E tm \in Timers : LoopExit(tm)
    \/ FinishAfterStop
    \/ FinishStatus
    \/ FinishClose
    \/ RunReturn
    \/ Exit

\* starts of one experiment with every config argument
NextConfig ==
    \/ \E r \in ResumeModes, rid \in RunIdArgs, pfx \in Prefixes, cfg \in ConfigArgs :
          RunStart(r, rid, FALSE, pfx, cfg, "e", NoName)
    \/ StartToExit

SpecConfig == InitBuf /\ [][NextConfig]_vars

\* starts of two experiments without a config argument
NextNotFound ==
    \/ \E r \in ResumeModes, rid \in RunIdArgs, pfx \in Prefixes, en \in ExperimentNames :
          RunStart(r, rid, FALSE, pfx, NoneConfig, en, NoName)
    \/ StartToExit

SpecNotFound == InitBuf /\ [][NextNotFound]_vars

\* the status argument of Run.finish: two of its docstring, and two other
\* strings
FinishArgs == {"completed", "failed", "running", "finished"}
\* the exc_type of Run.__exit__: no exception, the cancellation signal,
\* another exception
ExcTypes == {"None", "KeyboardInterrupt", "ValueError"}
\* the status argument of StonksLogger.finalize, from its docstring
FinalizeArgs == {"success", "finished"}
\* the metrics argument of the log calls of SpecLife
LifeDicts == {<<Item("a", FloatV(2))>>}

\* processes one after the other on a store whose inserts succeed or fail,
\* each with one Run that is started or resumed, logged to and finished: by
\* finish, by leaving its with-block or by the logger's finalize
NextLife ==
    \/ \E r \in ResumeModes, rid \in {NoRun} \cup Ids(db_runs), pfx \in Prefixes :
          RunStart(r, rid, FALSE, pfx, NoneConfig, "e", NoName)
    \/ \E m \in LifeDicts : RunLog(m, NoStep)
    \/ \E st \in FinishArgs : FinishCall(st)
    \/ \E e \in ExcTypes : ScopeExit(e)
    \/ \E st \in FinalizeArgs : Finalize(st)
    \/ StopJoin
    \/ FinishAfterStop
    \/ FinishStatus
    \/ FinishClose
    \/ RunReturn
    \/ BufferSteps(BOOLEAN)
    \/ Exit

SpecLife == InitBuf /\ [][NextLife]_vars

\* the arguments of the operator's calls: names, descriptions, and as
\* project_id None, the id of a project, an id that is no project's
ProjectNames == {"p"}
Descriptions == {NoDescription, "d"}
ProjectIdArgs == {NoId, UserId} \cup Ids(db_projects)
\* the --status argument of gc
GcStatuses == {{"running"}, {"completed", "failed", "interrupted"}}

\* processes with one Run each, one after the other, that start and end
\* while the operator creates projects and experiments
NextCreate ==
    \/ \E pfx \in Prefixes, en \in ExperimentNames, pn \in {NoName} \cup ProjectNames :
          RunStart("no", NoRun, FALSE, pfx, NoneConfig, en, pn)
    \/ Exit
    \/ \E n \in ProjectNames : OpCreateProject(n)
    \/ \E n \in ExperimentNames, d \in Descriptions, pid \in ProjectIdArgs :
          OpCreateExperiment(n, d, pid)
    \/ OpReturn

SpecCreate == InitBuf /\ [][NextCreate]_vars

\* two connections to one database file: "worker" creates experiments and
\* projects while the operator creates and deletes them under the same
\* names
NextConflict ==
    \/ \E cmd \in {"create_experiment", "create_project"}, n \in ExperimentNames :
          StoreCreateInsert(cmd, n)
    \/ StoreCreateFetch
    \/ StoreReturn
    \/ \E n \in ExperimentNames : ~WriteLocked /\ OpCreateProject(n)
    \/ \E n \in ExperimentNames, d \in Descriptions :
          ~WriteLocked /\ OpCreateExperiment(n, d, NoId)
    \/ \E id \in Ids(db_experiments) : OpDeleteExperimentSelect(id)
    \/ ~WriteLocked /\ OpDeleteExperimentDelete
    \/ \E cmd \in {"create_experiment", "create_project", "delete_experiment"},
          n \in ExperimentNames : OpBusy(cmd, n)
    \/ OpReturn

SpecConflict == InitBuf /\ [][NextConflict]_vars

\* processes one after the other on one store, each with one Run of one
\* of two experiments that is started, or resumed by the id of a stored run
\* or as the latest run of its experiment, logged to and finished
NextById ==
    \/ \E r \in {"no", "allow"}, rid \in {NoRun} \cup Ids(db_runs), pfx \in Prefixes,
          en \in ExperimentNames :
          RunStart(r, rid, FALSE, pfx, Dict(<<Item("lr", 1)>>), en, NoName)
    \/ RunLog(Sample, NoStep)
    \/ ScopeExit("None")
    \/ StopJoin
    \/ FinishAfterStop
    \/ FinishStatus
    \/ FinishClose
    \/ RunReturn
    \/ BufferSteps({TRUE})
    \/ Exit

SpecById == InitBuf /\ [][NextById]_vars

\* processes one after the other on one store, each with one Run with
\* hardware monitoring that starts a run or resumes the latest one, lets
\* the monitor sample and finishes
NextHwResume ==
    \/ \E r \in {"no", "allow"}, pfx \in Prefixes :
          RunStart(r, NoRun, TRUE, pfx, NoneConfig, "e", NoName)
    \/ HwPoll(Sample)
    \/ HwReturn
    \/ HwExit
    \/ FinishCall("completed")
    \/ FinishHwJoin
    \/ StopJoin
    \/ FinishAfterStop
    \/ FinishStatus
    \/ FinishClose
    \/ RunReturn
    \/ BufferSteps({TRUE})
    \/ Exit

SpecHwResume == InitBuf /\ [][NextHwResume]_vars

\* a Run whose caller calls log, log_config, set_tags and set_notes
\* whenever it likes: before start, between start and finish, and after
\* the with-block was left
NextCalls ==
    \/ \E pfx \in Prefixes : RunStart("no", NoRun, FALSE, pfx, NoneConfig, "e", NoName)
    \/ \E st \in {NoStep, 1} : RunLog(Sample, st)
    \/ LogConfigEnter(Dict(<<Item("lr", FloatV(1))>>))
    \/ LogConfigStore
    \/ SetTagsEnter(Tags(<<"t">>))
    \/ SetTagsStore
    \/ SetNotesEnter(Notes("n"))
    \/ SetNotesStore
    \/ ScopeExit("None")
    \/ StopJoin
    \/ FinishAfterStop
    \/ FinishStatus
    \/ FinishClose
    \/ RunReturn
    \/ BufferSteps({TRUE})

SpecCalls == InitBuf /\ [][NextCalls]_vars

\* a Run in one process and, while it is alive, a second Run in another
\* process that resumes the latest run of the same experiment; both log
\* and flush while time passes
NextBeat ==
    \/ \E pfx \in Prefixes : RunStart("no", NoRun, FALSE, pfx, NoneConfig, "e", NoName)
    \/ run_buffer /\ RunLog(Sample, NoStep)
    \/ ScopeExit("None")
    \/ StopJoin
    \/ FinishAfterStop
    \/ FinishStatus
    \/ FinishClose
    \/ RunReturn
    \/ BufferSteps({TRUE})
    \/ PeerConnect
    \/ PeerResume("e")
    \/ PeerLog(Sample)
    \/ PeerInsert
    \/ PeerBeat
    \/ PeerFinish("completed")
    \/ OpReturn
    \/ ClockTick

SpecBeat == InitBuf /\ [][NextBeat]_vars

\* processes with one Run each, one after the other, that log into a store
\* whose inserts succeed while the operator deletes and collects
NextStore ==
    \/ \E pfx \in Prefixes : RunStart("no", NoRun, FALSE, pfx, NoneConfig, "e", NoName)
    \/ \E m \in LifeDicts : RunLog(m, NoStep)
    \/ FinishCall("completed")
    \/ StopJoin
    \/ FinishAfterStop
    \/ FinishStatus
    \/ FinishClose
    \/ RunReturn
    \/ BufferSteps({TRUE})
    \/ Exit
    \/ \E id \in Ids(db_runs) : OpDeleteRun(id)
    \/ \E id \in Ids(db_experiments) : OpDeleteExperimentSelect(id)
    \/ OpDeleteExperimentDelete
    \/ \E sts \in GcStatuses : OpGcList(sts)
    \/ OpGcFinish
    \/ OpGcDelete
    \/ OpReturn

SpecStore == InitBuf /\ [][NextStore]_vars

\* two threads of one process with one Run each, on a database file that
\* does not exist before and a store whose inserts succeed: each Run is
\* started, logged to without a step inside its with-block, and left
NextTwo ==
    \/ \E pfx \in Prefixes : RunStart("no", NoRun, FALSE, pfx, NoneConfig, "e", NoName)
    \/ \E pfx \in Prefixes : RunStartLocked(pfx, NoneConfig)
    \/ \E m \in LifeDicts : run_buffer /\ RunLog(m, NoStep)
    \/ ScopeExit("None")
    \/ StopJoin
    \/ FinishAfterStop
    \/ FinishStatus
    \/ FinishClose
    \/ RunReturn
    \/ BufferSteps({TRUE})
    \/ PeerConnect
    \/ \E en \in ExperimentNames : PeerStart(en)
    \/ \E m \in LifeDicts : PeerLog(m)
    \/ PeerFlush
    \/ PeerFinish("completed")
    \/ OpReturn

SpecTwo == InitBuf /\ [][NextTwo]_vars

\* one Run without hardware monitoring on a store whose writes succeed: the
\* training thread logs, updates the config and leaves the with-block while
\* the timer of the buffer runs
NextConn ==
    \/ \E pfx \in Prefixes : RunStart("no", NoRun, FALSE, pfx, NoneConfig, "e", NoName)
    \/ \E m \in RunDicts : RunLog(m, NoStep)
    \/ \E c \in ConfigArgs \ {NoneConfig} : LogConfigEnter(c)
    \/ LogConfigStore
    \/ ScopeExit("None")
    \/ StopJoin
    \/ FinishAfterStop
    \/ FinishStatus
    \/ FinishClose
    \/ RunReturn
    \/ BufferSteps({TRUE})

SpecConn == InitBuf /\ [][NextConn]_vars

\* the keys of the metrics mapping the worker thread logs
WideKeys == <<"m1", "m2", "m3", "m4">>
\* a metrics mapping with max_size finite values
WideDict == [i \in 1..MaxSize |-> Item(WideKeys[i], FloatV(2))]

\* one Run without hardware monitoring that two threads of the caller use:
\* the training thread starts it, logs and leaves the with-block, the worker
\* thread logs a wide metrics mapping
NextTear ==
    \/ \E pfx \in Prefixes : RunStart("no", NoRun, FALSE, pfx, NoneConfig, "e", NoName)
    \/ \E m \in RunDicts : RunLog(m, NoStep)
    \/ RunLogBy("worker", WideDict, 0)
    \/ AddLocked("worker")
    \/ \E ok \in BOOLEAN : RunFlushFn("worker", ok)
    \/ RunReturnBy("worker")
    \/ ScopeExit("None")
    \/ StopJoin
    \/ FinishAfterStop
    \/ FinishStatus
    \/ FinishClose
    \/ RunReturn
    \/ BufferSteps(BOOLEAN)

SpecTear == InitBuf /\ [][NextTear]_vars

\* a HardwareMonitor whose log_fn is the add of a MetricBuffer: "main" starts
\* and stops the monitor, in any order and any number of times, while the
\* threads of the monitor add samples
NextMon ==
    \/ HwStart
    \/ HwStop
    \/ HwStopJoin
    \/ \E s \in Samplers, m \in Collected : HwPollBy(s, m)
    \/ \E s \in Samplers : HwReturnBy(s)
    \/ \E s \in Samplers : HwExitBy(s)
    \/ \E s \in Samplers : AddLocked(s)
    \/ \E s \in Samplers, ok \in BOOLEAN : FlushFn(s, ok)

SpecMon == InitBuf /\ [][NextMon]_vars

\* The join of HardwareMonitor.stop returns when the thread has ended or the
\* timeout has elapsed; a sampler thread that is not inside log_fn goes on:
\* it polls, takes the result of log_fn, wakes up when the event is set.
\* No fairness for what happens inside log_fn.
MonitorGoesOn ==
    /\ WF_vars(HwStopJoin)
    /\ \A s \in Samplers :
          /\ WF_vars(\E m \in Collected : HwPollBy(s, m))
          /\ WF_vars(HwReturnBy(s))
          /\ WF_vars(HwExitBy(s))

SpecMonStop == SpecMon /\ MonitorGoesOn

\* a database file that does not exist yet, or one that the older version
\* created, without rows or with an experiment and a finished run
InitSchema ==
    /\ strict \in BOOLEAN
    /\ wall = 0
    /\ clock = 0
    /\ NoBuffer
    /\ NoRunObject
    /\ prefix = ""
    /\ experiment_name = ""
    /\ db_projects = <<>>
    /\ db_metrics = <<>>
    /\ explicit_runs = {}
    /\ oper = NoOper
    /\ ds = NoDs
    /\ \/ /\ schema = NoSchema
          /\ db_experiments = <<>>
          /\ db_runs = <<>>
          /\ uuids = 0
       \/ /\ schema = OldSchema
          /\ \/ /\ db_experiments = <<>>
                /\ db_runs = <<>>
                /\ uuids = 0
             \/ /\ db_experiments = <<ExperimentRow(1, "e", NoDescription, NoId)>>
                /\ db_runs = <<RunRow(2, 1, "completed", TRUE, ConfigToJson(NoneConfig),
                                      TagsToJson(NoneTags), NoneNotes, 0)>>
                /\ uuids = 2

\* the commands of the operator and the Runs of training processes open
\* the database file, one after the other or at the same time
NextSchema ==
    \/ OpInitBegin
    \/ OpInitStatement
    \/ OpInitMigrate
    \/ OpReturn
    \/ \E pfx \in Prefixes : RunStart("no", NoRun, FALSE, pfx, NoneConfig, "e", NoName)
    \/ \E pfx \in Prefixes : RunStartFails(pfx, NoneConfig)
    \/ RunReturn
    \/ Exit

SpecSchema == InitSchema /\ [][NextSchema]_vars

(***************************************************************************)
(* server/downsampling.py, downsample_minmax, lines 8-83.  A series is the *)
(* sequence of its values (a float or None); the result is the sequence of *)
(* the 0-based indices of the points that are kept, since steps, values    *)
(* and timestamps are copied together.                                     *)
(***************************************************************************)
\* series.values[j]
ValueAt(values, j) == values[j + 1]

\* lines 52-61: the body of the loop over range(start, end) from j on; st
\* holds min_idx, max_idx, min_val, max_val
RECURSIVE ScanBucket(_, _, _, _)
ScanBucket(values, j, end, st) ==
    IF j >= end THEN st
    ELSE LET val == ValueAt(values, j)
             lower == st.min_val = Null \/ val.n < st.min_val.n
             st1 == IF lower THEN [st EXCEPT !.min_val = val, !.min_idx = j] ELSE st
             higher == st1.max_val = Null \/ val.n > st1.max_val.n
             st2 == IF higher THEN [st1 EXCEPT !.max_val = val, !.max_idx = j] ELSE st1
         IN ScanBucket(values, j + 1, end, IF val = Null THEN st ELSE st2)

(***************************************************************************)
(* Python floats (IEEE 754 binary64) of value 1 or more, as far as lines   *)
(* 37-41 need them.  A float is its significand sig, a number of Precision *)
(* binary digits, and the exponent top of its highest digit: its value is  *)
(* sig * 2^(top - (Precision - 1)).  sig is kept in three limbs a, b, c of *)
(* LimbBits digits each, sig = a * Limb^2 + b * Limb + c.  Every operation *)
(* rounds its exact result to the nearest float, to the one with an even   *)
(* significand in a tie.                                                   *)
(***************************************************************************)
\* the binary digits of the significand of a float
Precision == 53
\* the binary digits of a limb
LimbBits == 18
Limb == 2^LimbBits
\* the digits of the highest limb of a significand
HighBits == Precision - 2 * LimbBits

\* the number of binary digits of n
BitLength(n) == CHOOSE l \in 0..30 : n < 2^l /\ (l = 0 \/ n >= 2^(l - 1))

\* the limbs of a * Limb^2 + b * Limb + c, for b and c of any size
Carry(a, b, c) ==
    LET b1 == b + c \div Limb
    IN <<a + b1 \div Limb, b1 % Limb, c % Limb>>

\* the float with significand sig, or the next one when up; the
\* significand after the largest is the smallest of the next exponent
RoundUp(sig, top, up) ==
    LET r == IF up THEN Carry(sig[1], sig[2], sig[3] + 1) ELSE sig
    IN IF r[1] >= 2^HighBits
       THEN [sig |-> <<r[1] \div 2, 0, 0>>, top |-> top + 1]
       ELSE [sig |-> r, top |-> top]

\* the float nearest to n * 2^(top - (Precision - 1)), for limbs n of
\* Precision digits or a few more
RoundNearest(n, top) ==
    LET s == BitLength(n[1]) - HighBits
        p == 2^s
        a == n[1] \div p
        b == (n[1] % p) * (Limb \div p) + n[2] \div p
        c == (n[2] % p) * (Limb \div p) + n[3] \div p
        dropped == n[3] % p
    IN RoundUp(<<a, b, c>>, top + s,
               2 * dropped > p \/ (2 * dropped = p /\ c % 2 = 1))

\* m / k for ints m >= k >= 1 (line 37): the quotient of m * 2^(Precision
\* - 1 - top) by k, limb by limb, and the remainder decides the rounding
FloatDiv(m, k) ==
    LET top == BitLength(m \div k) - 1
        n1 == m * 2^(HighBits - 1 - top)
        n2 == (n1 % k) * Limb
        n3 == (n2 % k) * Limb
        r == n3 % k
    IN RoundUp(<<n1 \div k, n2 \div k, n3 \div k>>, top,
               2 * r > k \/ (2 * r = k /\ (n3 \div k) % 2 = 1))

\* i * x for an int i >= 1 (lines 40-41)
FloatMulInt(i, x) ==
    RoundNearest(Carry(x.sig[1] * i, x.sig[2] * i, x.sig[3] * i), x.top)

\* 1 + x for a float x >= 1 (lines 40-41): 1 is the digit of exponent 0
FloatAddOne(x) ==
    LET p == Precision - 1 - x.top
    IN RoundNearest(IF p < LimbBits THEN Carry(x.sig[1], x.sig[2], x.sig[3] + 2^p)
                    ELSE IF p < 2 * LimbBits
                    THEN Carry(x.sig[1], x.sig[2] + 2^(p - LimbBits), x.sig[3])
                    ELSE Carry(x.sig[1] + 2^(p - 2 * LimbBits), x.sig[2], x.sig[3]),
                    x.top)

\* int(x) for a float 1 <= x < 2^31: the digits of exponent 0 and above
FloatTrunc(x) ==
    LET sh == Precision - 1 - x.top
    IN IF sh >= 2 * LimbBits THEN x.sig[1] \div 2^(sh - 2 * LimbBits)
       ELSE x.sig[1] * 2^(2 * LimbBits - sh) + x.sig[2] \div 2^(sh - LimbBits)

\* lines 37-42: int(1 + i * bucket_size) with bucket_size = interior_points
\* / num_buckets, in float arithmetic; on this path interior_points >
\* num_buckets >= 1 (line 22), and 1 + 0 * bucket_size is 1.0
BucketBound(i, interior_points, num_buckets) ==
    IF i = 0 THEN 1
    ELSE FloatTrunc(FloatAddOne(FloatMulInt(i, FloatDiv(interior_points, num_buckets))))

\* mutant: a bucket adds its minimum before its maximum, wherever they are
BucketIndices_MinFirst(values, i, num_buckets) ==
    LET n == Len(values)
        start == BucketBound(i, n - 2, num_buckets)
        end0 == BucketBound(i + 1, n - 2, num_buckets)
        end == IF end0 < n - 1 THEN end0 ELSE n - 1
        st == ScanBucket(values, start, end,
                         [min_idx |-> start, max_idx |-> start,
                          min_val |-> ValueAt(values, start),
                          max_val |-> ValueAt(values, start)])
    IN IF start >= end THEN <<>>
       ELSE IF st.min_idx = st.max_idx THEN <<st.min_idx>>
       ELSE <<st.min_idx, st.max_idx>>

\* lines 40-76: the indices bucket i adds to the result
BucketIndices(values, i, num_buckets) ==
    LET n == Len(values)
        start == BucketBound(i, n - 2, num_buckets)
        end0 == BucketBound(i + 1, n - 2, num_buckets)
        end == IF end0 < n - 1 THEN end0 ELSE n - 1
        st == ScanBucket(values, start, end,
                         [min_idx |-> start, max_idx |-> start,
                          min_val |-> ValueAt(values, start),
                          max_val |-> ValueAt(values, start)])
    IN IF start >= end THEN <<>>
       ELSE IF st.min_idx = st.max_idx THEN <<st.min_idx>>
       ELSE IF st.min_idx < st.max_idx THEN <<st.min_idx, st.max_idx>>
       ELSE <<st.max_idx, st.min_idx>>

\* lines 40-45 and 52: the indices bucket i scans in a series of n points,
\* range(start, end); none when start >= end
BucketRange(n, i, num_buckets) ==
    LET start == BucketBound(i, n - 2, num_buckets)
        end0 == BucketBound(i + 1, n - 2, num_buckets)
        end == IF end0 < n - 1 THEN end0 ELSE n - 1
    IN start..(end - 1)

\* line 39: for i in range(num_buckets), from bucket i on
RECURSIVE Buckets(_, _, _)
Buckets(values, i, num_buckets) ==
    IF i >= num_buckets THEN <<>>
    ELSE BucketIndices(values, i, num_buckets) \o Buckets(values, i + 1, num_buckets)

\* the indices of a series of n points: the series itself
AllIndices(n) == [k \in 1..n |-> k - 1]

\* mutant: only a series that is short enough is returned as it is
ReturnsSeries_NoTargetTest(n, target_points) == n <= target_points

\* line 22: the series is returned as it is
ReturnsSeries(n, target_points) == n <= target_points \/ target_points < 2

\* downsample_minmax(series, target_points)
DownsampleMinmax(values, target_points) ==
    LET n == Len(values)
        num_buckets == target_points - 2
        interior_points == n - 2
    IN IF ReturnsSeries(n, target_points)
       THEN AllIndices(n)
       ELSE <<0>>
            \o (IF num_buckets > 0 /\ interior_points > 0
                THEN Buckets(values, 0, num_buckets) ELSE <<>>)
            \o <<n - 1>>

\* the values of a series: floats and None
SeriesValues == {FloatV(0), FloatV(1), Null}
\* the series and the target_points of the calls
SeriesArgs == UNION {[1..k -> SeriesValues] : k \in 0..MaxLen}
TargetArgs == 0..MaxTarget
\* long series: one point stands out of a flat line, or is None; and the
\* target_points of the calls with them
LongSeries ==
    {[k \in 1..n |-> IF k = at THEN v ELSE FloatV(0)] :
        n \in (LongLen - 1)..LongLen, at \in 1..LongLen, v \in {FloatV(1), Null}}
LongTargets == (LongLen - 4)..(LongLen - 2)

\* downsample_minmax is called and returns
DownsampleCall(values, target_points) ==
    /\ ds.pc = "idle"
    /\ ds' = [pc |-> "done", values |-> values, target_points |-> target_points,
              result |-> DownsampleMinmax(values, target_points)]
    /\ UNCHANGED <<envVars, clock, bufVars, thrVars, histVars, argVars, runVars, hwVars,
                   dbVars, runHist, schema, oper>>

\* the caller has the result
DownsampleReturn ==
    /\ ds.pc = "done"
    /\ ds' = NoDs
    /\ UNCHANGED <<envVars, clock, bufVars, thrVars, histVars, argVars, runVars, hwVars,
                   dbVars, runHist, schema, oper>>

NextDown ==
    \/ \E values \in SeriesArgs, target_points \in TargetArgs :
          DownsampleCall(values, target_points)
    \/ \E values \in LongSeries, target_points \in LongTargets :
          DownsampleCall(values, target_points)
    \/ DownsampleReturn

SpecDown == InitBuf /\ [][NextDown]_vars

(***************************************************************************)
(* Properties of MetricBuffer (SpecBuf)                                    *)
(***************************************************************************)
RECURSIVE Flat(_)
Flat(batches) == IF batches = <<>> THEN <<>> ELSE Head(batches) \o Flat(Tail(batches))

\* number of positions of sequence q that hold p
Occ(p, q) == Cardinality({i \in DOMAIN q : q[i] = p})

\* the batch _flush_locked has taken from the buffer and not yet handed over
InHand == IF lock = NoThread THEN <<>> ELSE loc[lock].batch

\* all of the points of sequence q occur in sequence r
AllIn(q, r) == \A i \in DOMAIN q : \E j \in DOMAIN r : r[j] = q[i]

\* C1: in every interleaving of concurrent add calls with size-triggered,
\* timer-triggered and manual flushes, every accepted point is in exactly one
\* place: one batch handed to the flush callback, the batch being handed
\* over, or the buffer; nothing is handed over that was not accepted; and
\* when a manual flush that began after all adds had returned leaves, every
\* accepted point has been handed to the callback exactly once.
C1_ExactlyOnce ==
    /\ \A i \in DOMAIN accepted :
          Occ(accepted[i], Flat(delivered)) + Occ(accepted[i], InHand)
            + Occ(accepted[i], buffer) = 1
    /\ AllIn(Flat(delivered), accepted)
    /\ \A b \in DOMAIN delivered : delivered[b] # <<>>
    /\ (pc["main"] = "ret" /\ op["main"] = "flush" /\ callSnap.quiet)
          => \A i \in DOMAIN accepted : Occ(accepted[i], Flat(delivered)) = 1

\* two batches, one of them size-triggered, and a manual flush that returned
C1_Witness ==
    /\ pc["main"] = "ret" /\ op["main"] = "flush" /\ callSnap.quiet
    /\ Len(delivered) >= 2
    /\ Len(accepted) >= 3
    /\ Len(Flat(delivered)) = Len(accepted)

\* C2: when stop() of a started MetricBuffer leaves, the join has been done
\* before the final flush, every point accepted before stop() was called has
\* been handed to the flush callback, and on an orderly shutdown (no add in
\* progress when stop() was called nor begun since) the buffer is empty.
C2_StopDrains ==
    /\ (op["main"] = "stop" /\ pc["main"] \in {"flush_lock", "flush_fn", "ret"})
          => thread = NoThread
    /\ (op["main"] = "stop" /\ pc["main"] = "ret" /\ callSnap.started)
          => /\ stop_event
             /\ AllIn(SubSeq(accepted, 1, callSnap.acc), Flat(delivered))
             /\ callSnap.quiet => buffer = <<>>

\* stop() returned on a started buffer that held points, orderly
C2_Witness ==
    /\ op["main"] = "stop" /\ pc["main"] = "ret" /\ loc["main"].exc = "none"
    /\ callSnap.started /\ callSnap.quiet
    /\ callSnap.acc >= 1
    /\ Len(Flat(delivered)) = 1
    /\ buffer = <<>>

\* C5: in strict mode an add call whose mapping holds an infinite value
\* raises InvalidMetricError at once, with nothing of the call pending, and
\* leaves the buffer exactly as it was.
C5_StrictRejectsWholeCall ==
    [][\A t \in Producers, m \in MetricDicts \cup {Sample} :
          (strict /\ HasInf(m) /\ Add(t, m, 0))
             => /\ pc'[t] = "ret"
                /\ loc'[t].exc = "InvalidMetricError"
                /\ loc'[t].entries = <<>>
                /\ buffer' = buffer
                /\ accepted' = accepted
                /\ lock' = lock]_vars

\* a strict add has raised while the buffer held a point, which is still there
C5_Witness ==
    /\ strict
    /\ \E t \in Producers :
          /\ pc[t] = "ret" /\ op[t] = "add"
          /\ loc[t].exc = "InvalidMetricError"
    /\ Len(buffer) = 1
    /\ accepted = buffer

\* what a lenient add call is to buffer for mapping m at time ts, step s:
\* infinite values dropped, NaN as null, every other value as that float
RECURSIVE Classified(_, _, _)
Classified(m, s, ts) ==
    IF m = <<>> THEN <<>>
    ELSE LET v == Head(m).value
             rest == Classified(Tail(m), s, ts)
         IN IF v.ty \in {"inf", "ninf"} THEN rest
            ELSE IF v.ty = "nan"
                 THEN <<[key |-> Head(m).key, value |-> [ty |-> "null", n |-> 0],
                         step |-> s, ts |-> ts]>> \o rest
                 ELSE <<[key |-> Head(m).key, value |-> [ty |-> "float", n |-> v.n],
                         step |-> s, ts |-> ts]>> \o rest

\* C6: in lenient mode add never raises and classifies every entry of the
\* call on its own (infinite: dropped, NaN: null, finite: that float); the
\* entries are appended to the buffer as classified, so that no infinite
\* value is ever buffered or handed to the flush callback.
C6_LenientClassifies ==
    /\ [][\A t \in Producers, m \in MetricDicts \cup {Sample} :
            (~strict /\ Add(t, m, 0))
               => IF Classified(m, 0, clock) = <<>>
                  THEN pc'[t] = "ret" /\ loc'[t].exc = "none"
                  ELSE pc'[t] = "add_lock"
                       /\ loc'[t].entries = Classified(m, 0, clock)]_vars
    /\ [][\A t \in Producers :
            AddLocked(t) => accepted' = accepted \o loc[t].entries]_vars
    /\ [](\A i \in DOMAIN accepted : accepted[i].value.ty \in {"float", "null"})

\* a lenient call kept key "b" and dropped key "a"; a NaN was handed over as null
C6_Witness ==
    /\ ~strict
    /\ \E i \in DOMAIN Flat(delivered) :
          /\ Flat(delivered)[i].key = "b"
          /\ Flat(delivered)[i].value = [ty |-> "float", n |-> 1]
          /\ \A j \in DOMAIN accepted :
                accepted[j].ts = Flat(delivered)[i].ts => accepted[j].key = "b"
    /\ \E i \in DOMAIN Flat(delivered) : Flat(delivered)[i].value.ty = "null"


(***************************************************************************)
(* Properties of Run (SpecRun, SpecResume)                                 *)
(***************************************************************************)
Terminal == {"completed", "failed", "interrupted"}

\* the points Run.log has had accepted by the buffer of this Run
LogPoints == {accepted[i] : i \in {j \in DOMAIN accepted : accepted[j].key # "sys"}}

\* the rows of table metrics, as a set
StoredRows == {db_metrics[i] : i \in DOMAIN db_metrics}

\* the store shows the run of this Run object with a terminal status
TerminalStored ==
    run_info # NoRun /\ run_info \in Ids(db_runs) /\ RunOf(run_info).status \in Terminal

\* finish is past stop() of the monitor and of the buffer, in this order,
\* before it writes the status, and writes the status before it closes
FinishInOrder ==
    /\ pc["main"] \in {"stop_join", "flush_lock", "flush_fn"} /\ op["main"] = "finish"
          => ~hw_monitor /\ (conn = "open" => ~TerminalStored)
    /\ pc["main"] = "fin_status"
          => ~hw_monitor /\ ~run_buffer /\ (conn = "open" => ~TerminalStored)
    /\ pc["main"] = "fin_close"
          => ~hw_monitor /\ ~run_buffer /\ (conn = "open" /\ run_info # NoRun => TerminalStored)
    /\ op["main"] = "finish_end" => conn = "none" /\ ~run_buffer /\ ~hw_monitor

\* C3 as stated: finish stops the monitor, stops the buffer, stores the
\* status and closes, in this order, and whenever the stored status of the
\* run is terminal every point that log had accepted is in the store.
C3_TerminalImpliesPersisted ==
    /\ FinishInOrder
    /\ TerminalStored => \A p \in LogPoints : Row(run_info, p) \in StoredRows

\* C3 with the losses the lenient policy allows: whenever the stored status
\* is terminal every point that log had accepted is in the store or was in a
\* batch whose insert failed.
C3_TerminalImpliesFlushed ==
    /\ FinishInOrder
    /\ TerminalStored => \A p \in LogPoints : Row(run_info, p) \in StoredRows \/ p \in lost


\* the point of a row
PointOf(r) == Point(r.key, r.value, r.step, r.ts)
\* the rows of the run of this Run object, in insertion order, as points
Inserted ==
    LET rows == SelectSeq(db_metrics, LAMBDA r : r.run = run_info)
    IN [i \in DOMAIN rows |-> PointOf(rows[i])]
\* the points of sequence q with key k
OfKey(q, k) == SelectSeq(q, LAMBDA p : p.key = k)
Keys == {accepted[i].key : i \in DOMAIN accepted}
\* the accepted points that are in the store, in the order of their append
AcceptedStored ==
    SelectSeq(accepted, LAMBDA p : \E i \in DOMAIN Inserted : Inserted[i] = p)

\* store/metrics.py get_metrics, ORDER BY step: every order of the rows of
\* (run, key) that is ascending in step may be returned
SeriesOf(run, k) == SelectSeq(db_metrics, LAMBDA r : r.run = run /\ r.key = k)
GetMetricsSteps(run, k) ==
    LET rows == SeriesOf(run, k)
        n == Len(rows)
        perms == {f \in [1 .. n -> 1 .. n] : \A i, j \in 1 .. n : i # j => f[i] # f[j]}
        sorted == {f \in perms : \A i, j \in 1 .. n : i < j => rows[f[i]].step <= rows[f[j]].step}
    IN {[i \in 1 .. n |-> rows[f[i]].step] : f \in sorted}

\* C4: the rows of the run are in the store in the order in which their points
\* were appended to the buffer, as a whole and key by key, whatever flushes
\* lay between them; and on a run that was only logged to without a step,
\* get_metrics returns the steps of a key in the order of submission.
C4_OrderPreserved ==
    run_info # NoRun =>
        /\ Inserted = AcceptedStored
        /\ \A k \in Keys : OfKey(Inserted, k) = OfKey(AcceptedStored, k)
        /\ run_info \notin explicit_runs =>
              \A k \in Keys \ {"sys"} :
                 LET sub == OfKey(AcceptedStored, k)
                 IN GetMetricsSteps(run_info, k) = {[i \in DOMAIN sub |-> sub[i].step]}

\* a point of a key is in the store, and the next batch, formed after that
\* flush, is on its way to the store with a later point of the same key
C4_Witness ==
    /\ run_info # NoRun
    /\ run_info \notin explicit_runs
    /\ \E t \in Threads :
          /\ pc[t] = "flush_fn"
          /\ \E i \in DOMAIN Inserted, j \in DOMAIN loc[t].batch :
                /\ Inserted[i].key = loc[t].batch[j].key
                /\ Inserted[i].ts < loc[t].batch[j].ts

\* a call of the training thread or of the sampler that goes through the
\* buffer: Run.log, Run.flush (MetricBuffer.flush) and the monitor's
\* MetricBuffer.add
ThroughBuffer == {"log", "rflush", "poll"}

\* C7: in strict mode an infinite value makes Run.log raise
\* InvalidMetricError, and a failure of the flush callback inside a flush that
\* a caller triggered (Run.log or add at max_size, flush) is raised to that
\* caller; in lenient mode neither makes the call raise, and the only error
\* such a call ends with is that of log on a Run without a buffer.
C7_ErrorsFollowMode ==
    /\ [][/\ \A m \in RunDicts, s \in StepArgs :
               RunLog(m, s) /\ run_buffer /\ HasInf(m)
                  => /\ pc'["main"] = "ret"
                     /\ loc'["main"].exc = IF strict THEN "InvalidMetricError" ELSE "none"
          /\ \A t \in Producers :
               RunFlushFn(t, FALSE) /\ op[t] \in ThroughBuffer
                     /\ conn = "open" /\ run_info # NoRun
                  => /\ pc'[t] = "ret"
                     /\ loc'[t].exc = IF strict THEN "FlushError" ELSE "none"]_vars
    /\ [](~strict =>
            \A t \in Producers :
               op[t] \in ThroughBuffer /\ loc[t].exc # "none"
                  => loc[t].exc = "RuntimeError" /\ op[t] = "log" /\ ~run_buffer)

\* strict mode: a log call whose add reached max_size ends with the error of
\* the flush callback
C7_Witness ==
    /\ strict
    /\ pc["main"] = "ret"
    /\ op["main"] = "log"
    /\ loc["main"].exc = "FlushError"

\* C8 as stated: in both modes no exception ends the flush loop of the buffer
\* or the sampling loop of the monitor; the thread goes on to its next tick.
C8_LoopsKeepRunning ==
    \A t \in Timers \cup {"sampler"} : pc[t] # "crashed"

\* the monitor of this Run has made no call of add
SamplerSilent ==
    op["sampler"] = "none" /\ hw_step = 0 /\ pc["sampler"] # "crashed"

\* a run that was created by this Run object and only logged to without step
FreshAutoOnly == run_info # NoRun /\ ~resumed /\ run_info \notin explicit_runs

\* C9: a Run that starts a new run has its counter at 0; log without step
\* uses the counter and adds one to it, log with step s uses s and sets the
\* counter to s + 1 whatever it was; so on a new run that is only logged to
\* without step, the steps of the accepted points are below the counter and
\* grow with the calls, and the n-th call (from 0) gets step n.
C9_StepCounter ==
    /\ [][/\ \A m \in RunDicts, s \in StepArgs :
               RunLog(m, s) /\ run_buffer
                  => LET used == IF s = NoStep THEN step_counter ELSE s
                     IN /\ step_counter' = used + 1
                        /\ \A i \in DOMAIN loc'["main"].entries :
                              loc'["main"].entries[i].step = used
          /\ ~run_buffer /\ run_buffer' /\ ~resumed' => step_counter' = 0]_vars
    /\ [](FreshAutoOnly =>
            /\ \A p \in LogPoints : 0 <= p.step /\ p.step < step_counter
            /\ \A p, q \in LogPoints : p.ts < q.ts => p.step < q.step
            /\ SamplerSilent =>
                  /\ step_counter = clock
                  /\ \A p \in LogPoints : p.step = p.ts)

\* two log calls without step on a new run: steps 0 and 1, counter 2
C9_Witness ==
    /\ FreshAutoOnly
    /\ SamplerSilent
    /\ step_counter = 2
    /\ {p.step : p \in LogPoints} = {0, 1}

\* the largest step stored for a run, -1 without rows
StoredMax(run) ==
    LET steps == {r.step : r \in {x \in StoredRows : x.run = run}}
    IN IF steps = {} THEN -1 ELSE CHOOSE x \in steps : \A y \in steps : y <= x

\* C10 as stated: after a resume the step that the next log call without step
\* gets is above every step stored for the run before the resume.
C10_AutoStepsAboveStored ==
    resumed => step_counter > resume_max

\* C10, amended: a resume sets the counter to the largest step stored for the
\* run, over all keys, plus one, and to 0 for a run without points; from then
\* on a log call without step gets a step above every step stored before the
\* resume, unless a log call since the resume was given a step below that
\* maximum.
C10_ResumeContinues ==
    /\ [][/\ ~resumed /\ resumed'
               => /\ step_counter' = StoredMax(run_info') + 1
                  /\ resume_max' = StoredMax(run_info')
                  /\ (\A r \in StoredRows : r.run # run_info') => step_counter' = 0
          /\ \A m \in RunDicts :
               RunLog(m, NoStep) /\ run_buffer /\ resumed /\ ~low_explicit
                  => \A i \in DOMAIN loc'["main"].entries :
                        loc'["main"].entries[i].step > resume_max]_vars
    /\ [](resumed /\ ~low_explicit => step_counter > resume_max)

\* a run with stored steps is resumed and a log call without step has had a
\* point accepted at the step after the stored maximum
C10_Witness ==
    /\ resumed
    /\ resume_max >= 0
    /\ ~low_explicit
    /\ \E p \in LogPoints : p.step = resume_max + 1


(***************************************************************************)
(* Claims about start() with resume (SpecConfig)                           *)
(***************************************************************************)
\* the stored config of the run with the id, as a dict or None
StoredConfig(runs, id) == ConfigFromJson(runs[PosOf(runs, id)].config)

\* C11: a resume with a non-empty config stores the merge of the stored and
\* the supplied config: the keys are those of both, a supplied key has the
\* supplied value, any other key keeps its stored value, and what is stored
\* equals Run.config; a resume without a config leaves the stored config as
\* it was and Run.config equal to it.
C11_ResumeMergesConfig ==
    [][(~resumed /\ resumed') =>
       \A r \in ResumeModes, rid \in RunIdArgs, pfx \in {prefix'}, cfg \in ConfigArgs,
         en \in ExperimentNames :
          RunStart(r, rid, FALSE, pfx, cfg, en, NoName)
             => LET old == StoredConfig(db_runs, run_info')
                    new == StoredConfig(db_runs', run_info')
                IN /\ DictEq(new, config')
                   /\ Truthy(cfg) =>
                         /\ ~new.none
                         /\ DictKeys(new) = DictKeys(old) \cup DictKeys(cfg)
                         /\ \A k \in DictKeys(cfg) : DictGet(new, k) = DictGet(cfg, k)
                         /\ \A k \in DictKeys(old) \ DictKeys(cfg) :
                               DictGet(new, k) = DictGet(old, k)
                   /\ cfg.none =>
                         db_runs'[PosOf(db_runs, run_info')].config
                            = db_runs[PosOf(db_runs, run_info')].config]_vars

\* a run stored with {ep: 2, lr: 3} was resumed with {lr: 1}: the Run and
\* the store hold {ep: 2, lr: 1}
C11_Witness ==
    /\ resumed
    /\ DictKeys(config) = {"ep", "lr"}
    /\ DictGet(config, "ep") = 2
    /\ DictGet(config, "lr") = 1
    /\ run_info \in Ids(db_runs)
    /\ DictEq(StoredConfig(db_runs, run_info), config)

\* the resume flag is set and start() finds no run: no run with the explicit
\* id, or without an id no run of the experiment with the name
NoCandidate(rid, en) ==
    IF rid # NoRun THEN rid \notin Ids(db_runs)
    ELSE \A i \in DOMAIN db_runs, j \in ByName(db_experiments, en) :
            db_runs[i].experiment_id # db_experiments[j].id

\* C12: when the resume flag is set and there is no candidate, start()
\* with resume "must" raises StonksError in either mode and creates no run;
\* with resume True it does what a start without resume does: it appends
\* one run, with the explicit id if one was given, running, in the
\* experiment of the name, and the Run has its buffer and a counter of 0.
C12_ResumeNotFound ==
    [][(conn = "none" /\ conn' = "open") =>
       \A r \in {"allow", "must"}, rid \in RunIdArgs, pfx \in {prefix'},
         cfg \in ConfigArgs, en \in ExperimentNames :
          (NoCandidate(rid, en) /\ RunStart(r, rid, FALSE, pfx, cfg, en, NoName))
             => IF r = "must"
                THEN /\ pc'["main"] = "ret"
                     /\ loc'["main"].exc = "StonksError"
                     /\ db_runs' = db_runs
                     /\ ~run_buffer'
                ELSE /\ RunStart("no", rid, FALSE, pfx, cfg, en, NoName)
                     /\ Len(db_runs') = Len(db_runs) + 1
                     /\ SubSeq(db_runs', 1, Len(db_runs)) = db_runs
                     /\ LET row == db_runs'[Len(db_runs')]
                        IN /\ row.id \notin Ids(db_runs)
                           /\ rid # NoRun => row.id = rid
                           /\ row.status = "running"
                           /\ ~row.ended_at
                           /\ \E j \in ByName(db_experiments', en) :
                                 row.experiment_id = db_experiments'[j].id
                           /\ run_info' = row.id
                     /\ ~resumed'
                     /\ step_counter' = 0
                     /\ run_buffer'
                     /\ thread' # NoThread
                     /\ loc'["main"].exc = "none"]_vars

\* in lenient mode a start with resume "must" has raised StonksError, in a
\* store that holds a run with the id the caller chose
C12_Witness ==
    /\ ~strict
    /\ pc["main"] = "ret"
    /\ op["main"] = "start"
    /\ loc["main"].exc = "StonksError"
    /\ UserId \in Ids(db_runs)

\* the with-block of the Run has been left: __exit__(exc_type) has returned
\* or has raised
ScopeLeft ==
    /\ pc["main"] = "ret"
    /\ \/ op["main"] = "finish_end"
       \/ op["main"] = "finish" /\ loc["main"].exc # "none"
    /\ loc["main"].exc_type # NotInExit

\* C13: when the with-block of a Run has been left, the stored status of
\* its run is completed after a normal end, interrupted after a
\* KeyboardInterrupt and failed after any other exception, and ended_at is
\* set.
C13_ScopeExitStatus ==
    ScopeLeft =>
       /\ run_info \in Ids(db_runs)
       /\ RunOf(run_info).status = ExitStatus(loc["main"].exc_type)
       /\ RunOf(run_info).ended_at

\* the Run is torn down: a finish has dropped the monitor and the buffer
\* and has closed the connection
TornDown ==
    /\ run_info # NoRun
    /\ conn = "none"
    /\ ~run_buffer
    /\ ~hw_monitor

\* C14: every step of a finish on a Run that is torn down leaves the
\* buffer, its thread and its stop event, the connection and the store as
\* they are, and the call ends without an exception.
C14_SecondFinish ==
    [][(TornDown /\ pc'["main"] # pc["main"]
          /\ (op["main"] = "finish" \/ op'["main"] = "finish"))
         => /\ UNCHANGED <<bufVars, conn, run_info, run_buffer, hwVars, dbVars>>
            /\ loc'["main"].exc = "none"
            /\ pc'["main"] \in {"fin_status", "fin_close", "ret"}
            /\ pc'["main"] = "ret" => op'["main"] = "finish_end"]_vars

\* a second finish, with status failed, is about to return on a Run whose
\* first finish stored completed
C14_Witness ==
    /\ TornDown
    /\ pc["main"] = "fin_close"
    /\ loc["main"].status = "failed"
    /\ run_info \in Ids(db_runs)
    /\ RunOf(run_info).status = "completed"
    /\ RunOf(run_info).ended_at

\* C15: every run row has ended_at set if and only if its status is not
\* running.
C15_EndedIffNotRunning ==
    \A i \in DOMAIN db_runs : db_runs[i].ended_at <=> db_runs[i].status # "running"

\* C16: the status of every run row is running, completed, failed or
\* interrupted.
C16_StatusDomain ==
    \A i \in DOMAIN db_runs : db_runs[i].status \in {"running"} \cup Terminal

\* the names of a table are unique
UniqueNames(table) ==
    \A i, j \in DOMAIN table : table[i].name = table[j].name => i = j

\* a create call of the operator has ended: it returned the id of the row
\* with its name
Fetched(table) ==
    /\ oper.exc = "none"
    /\ \E i \in ByName(table, oper.name) : table[i].id = oper.result

\* no start() and no create call changes or removes a row of experiments
\* or projects that is there
PresentUnchanged ==
    [][/\ \A i \in DOMAIN db_experiments :
             i \in DOMAIN db_experiments' /\ db_experiments'[i] = db_experiments[i]
       /\ \A i \in DOMAIN db_projects :
             i \in DOMAIN db_projects' /\ db_projects'[i] = db_projects[i]]_vars

\* C17: each table holds one row per name, and every create_experiment and
\* create_project call returns the id of the row with its name, whatever
\* its description and project_id.
C17_InsertOrFetch ==
    /\ UniqueNames(db_experiments)
    /\ UniqueNames(db_projects)
    /\ oper.pc = "done" /\ oper.cmd = "create_experiment" => Fetched(db_experiments)
    /\ oper.pc = "done" /\ oper.cmd = "create_project" => Fetched(db_projects)

\* every metric row refers to a run row and every run row to an
\* experiment row
RefIntegrity ==
    /\ \A i \in DOMAIN db_metrics : db_metrics[i].run \in Ids(db_runs)
    /\ \A i \in DOMAIN db_runs : db_runs[i].experiment_id \in Ids(db_experiments)

\* the delete command has ended: the run and its metrics are gone
RunDeleted ==
    /\ oper.exc = "none"
    /\ oper.target \notin Ids(db_runs)
    /\ \A i \in DOMAIN db_metrics : db_metrics[i].run # oper.target

\* the delete command has ended: the experiment and its runs are gone
ExperimentDeleted ==
    /\ oper.exc = "none"
    /\ oper.target \notin Ids(db_experiments)
    /\ \A i \in DOMAIN db_runs : db_runs[i].experiment_id # oper.target

\* C18: in every state of the store every metric row refers to an existing
\* run and every run row to an existing experiment, a delete of a run has
\* removed the run and its metrics, and a delete of an experiment has
\* removed the experiment, its runs and their metrics.
C18_DeleteCascades ==
    /\ RefIntegrity
    /\ oper.pc = "done" /\ oper.cmd = "delete_run" => RunDeleted
    /\ oper.pc = "done" /\ oper.cmd = "delete_experiment" => ExperimentDeleted

\* all tables, all columns and all indexes of the current schema
CompleteSchema ==
    /\ \A i \in DOMAIN SchemaStatements :
          /\ SchemaStatements[i].name \in schema
          /\ SchemaStatements[i].kind = "table" =>
                \A c \in SchemaStatements[i].columns :
                   Col(SchemaStatements[i].name, c) \in schema
    /\ \A i \in DOMAIN MigrationColumns :
          MigrationColumns[i].kind = "column" =>
             Col(MigrationColumns[i].table, MigrationColumns[i].name) \in schema

\* an initialize_db of the operator or of a Run's start() has ended
InitEnded ==
    \/ oper.pc = "done" /\ oper.cmd = "initialize_db"
    \/ pc["main"] = "ret" /\ op["main"] = "start"

\* no step of initialize_db changes a row
RowsPreserved ==
    [][oper.cmd = "initialize_db" /\ oper' # oper => UNCHANGED dbVars]_vars

\* initialize_db raises only on a database file whose table runs lacks the
\* column group_name, and that is a file of the older schema
FailsOnOldOnly ==
    (oper.exc = "OperationalError" \/ loc["main"].exc = "OperationalError")
       => /\ Col("runs", "group_name") \notin schema
          /\ OldSchema \subseteq schema

\* C19: when initialize_db has ended, on an empty database file, on an
\* initialized one or on one of the older schema, it has not raised and
\* the file has the complete current schema.
C19_InitializeDb ==
    InitEnded =>
       /\ oper.exc = "none"
       /\ loc["main"].exc = "none"
       /\ CompleteSchema

\* the smaller of two numbers
Min(a, b) == IF a <= b THEN a ELSE b

\* a call returns at least min(len(series), 2) points, and at most
\* 2 * target_points - 2 for target_points >= 2
DownsampleBounds ==
    ds.pc = "done" /\ ds.target_points >= 2 =>
       /\ Len(ds.result) >= Min(Len(ds.values), 2)
       /\ Len(ds.result) <= 2 * ds.target_points - 2

\* C20: a call of downsample_minmax with target_points >= 2 returns at most
\* target_points points and at least min(len(series), 2).
C20_DownsampleSize ==
    ds.pc = "done" /\ ds.target_points >= 2 =>
       /\ Len(ds.result) <= ds.target_points
       /\ Len(ds.result) >= Min(Len(ds.values), 2)

\* the values of the points a call has returned
Picked(values, indices) == [k \in DOMAIN indices |-> ValueAt(values, indices[k])]

Reduced == ds.pc = "done" /\ ~ReturnsSeries(Len(ds.values), ds.target_points)

\* C22: the points of a reduced series are points of the input, each taken
\* once and in the order of the input, from the first point of the input to
\* its last; a point is an index of the input, whose step, value and
\* timestamp are copied together.
C22_OrderedSelection ==
    Reduced =>
       /\ \A k \in DOMAIN ds.result : ds.result[k] \in 0..(Len(ds.values) - 1)
       /\ \A k \in 1..(Len(ds.result) - 1) : ds.result[k] < ds.result[k + 1]
       /\ ds.result[1] = 0
       /\ ds.result[Len(ds.result)] = Len(ds.values) - 1

\* a reduced series that holds the maximum of a bucket before its minimum
C22_Witness ==
    /\ Reduced
    /\ ds.values = <<FloatV(0), FloatV(1), FloatV(0), FloatV(0)>>
    /\ ds.target_points = 3
    /\ ds.result = <<0, 1, 2, 3>>

\* the second Run has left its with-block
PeerEnded == oper.cmd = "run" /\ oper.pc = "done"

\* the rows of the run of the second Run, in insertion order, as points
PeerInserted ==
    LET rows == SelectSeq(db_metrics, LAMBDA r : r.run = oper.result)
    IN [i \in DOMAIN rows |-> PointOf(rows[i])]

\* when both Runs have left their with-blocks, the rows of each run are
\* the points that were logged to it, in the order of the log calls
SeriesExact ==
    TornDown /\ PeerEnded => Inserted = accepted /\ PeerInserted = oper.logged

\* two Runs that have both been started go on and end without an error,
\* each with exactly its points in the store
TwoRunsOnceStarted ==
    /\ op["main"] # "start" => loc["main"].exc = "none"
    /\ oper.exc = "none"
    /\ SeriesExact

\* both Runs have logged a point and have left their with-blocks
BothLoggedAndEnded ==
    /\ TornDown
    /\ PeerEnded
    /\ accepted # <<>>
    /\ oper.logged # <<>>

\* C23: no call of either of the two Runs raises, and when both have left
\* their with-blocks the rows of each run are exactly the points logged to
\* it.
C23_TwoRuns ==
    /\ loc["main"].exc = "none"
    /\ oper.exc = "none"
    /\ SeriesExact

\* the samples of the monitor that the buffer has accepted, in order
SysPoints == SelectSeq(accepted, LAMBDA p : p.key = "sys")

\* C24: the i-th sample the monitor hands to its log callback carries step
\* i - 1, whatever the step counter of the Run is; the first sample is taken
\* before the thread waits for the first time, and the monitor's counter is
\* the number of samples it has handed over.
C24_SamplerSteps ==
    /\ \A i \in DOMAIN SysPoints : SysPoints[i].step = i - 1
    /\ pc["sampler"] = "hw_first" => hw_step = 0 /\ SysPoints = <<>>
    /\ pc["sampler"] = "add_lock" =>
          /\ hw_step = Len(SysPoints)
          /\ \A i \in DOMAIN loc["sampler"].entries :
                loc["sampler"].entries[i].step = hw_step
    /\ pc["sampler"] = "hw_wait" => hw_step = Len(SysPoints)

\* the first sample has been handed over with step 0 on a Run whose step
\* counter an explicit step has moved to MaxStep + 1
C24_Witness ==
    /\ Len(SysPoints) = 1
    /\ SysPoints[1].step = 0
    /\ hw_step = 1
    /\ step_counter = MaxStep + 1

\* the timer threads of the buffer that have been started and have not ended
LiveTimers == {tm \in Timers : pc[tm] \notin {"unborn", "dead", "crashed"}}

\* start() on a started buffer and stop() on a stopped buffer change nothing
\* of the buffer and of its threads, and stop() returns without an exception
BufStartStopNoOps ==
    [][/\ (thread # NoThread /\ Start) => UNCHANGED <<bufVars, pc>>
       /\ (thread = NoThread /\ Stop) =>
             /\ UNCHANGED <<bufVars, loc>>
             /\ \A tm \in Timers : pc'[tm] = pc[tm]
             /\ pc'["main"] = "ret"]_vars

\* stop() has given up the join of a timer thread that was inside flush(),
\* start() has spawned a second one, and the first goes on with its loop
TwoTimers ==
    /\ Cardinality(LiveTimers) = 2
    /\ ~stop_event
    /\ \E tm \in Timers : tm # thread /\ pc[tm] = "wait"

\* the threads of the monitor that have been started and have not ended
LiveSamplers == {s \in Samplers : pc[s] \notin {"idle", "dead", "crashed"}}

\* stop() has given up the join of a sampler thread that was inside log_fn,
\* start() has created a second one, and the first goes on with its loop
TwoSamplers ==
    /\ Cardinality(LiveSamplers) = 2
    /\ ~hw_stop_event
    /\ \E s \in Samplers : s # hw_thread /\ pc[s] = "hw_wait"

\* start() on a started monitor and stop() on a stopped monitor change
\* nothing of the monitor and of its threads
HwStartStopNoOps ==
    [][/\ (hw_thread # NoThread /\ HwStart) => UNCHANGED <<hwVars, pc>>
       /\ (hw_thread = NoThread /\ HwStop) => UNCHANGED <<hwVars, pc, loc>>]_vars

\* C25: a MetricBuffer has at most one timer thread and a HardwareMonitor
\* at most one sampler thread at any time, whatever start and stop calls
\* they have seen.
C25_OneBackgroundTask == Cardinality(LiveTimers) <= 1 /\ Cardinality(LiveSamplers) <= 1

\* thread t is inside a call that runs statements on the connection of the
\* Run: _flush_metrics past its test (run.py 351-353), update_run_config
\* (291), finish_run (337), close (341)
UsesConn(t) ==
    \/ pc[t] = "flush_fn" /\ conn = "open" /\ run_info # NoRun
    \/ pc[t] = "cfg_store"
    \/ pc[t] = "fin_status" /\ conn = "open" /\ run_info # NoRun
    \/ pc[t] = "fin_close" /\ conn = "open"

\* the flushes are serialized with each other, by the lock of the buffer
FlushesSerialized == Cardinality({t \in Threads : pc[t] = "flush_fn"}) <= 1

\* finish_run and close are serialized with the flushes
FinishSerialized ==
    \A t \in Threads :
        (pc["main"] \in {"fin_status", "fin_close"} /\ t # "main") => ~UsesConn(t)

\* the timer thread is inside insert_metrics while the training thread is
\* inside update_run_config
FlushDuringLogConfig ==
    /\ pc["main"] = "cfg_store"
    /\ \E tm \in Timers : UsesConn(tm)

\* C26: at most one thread at a time is inside a store call on the
\* connection of a Run.
C26_ConnSerialized == Cardinality({t \in Threads : UsesConn(t)}) <= 1

\* the join of stop() has timed out on a timer thread that is inside the
\* flush callback, and the caller waits for the lock that thread holds
StopWaitsForTask ==
    /\ pc["main"] = "flush_lock"
    /\ op["main"] = "stop"
    /\ lock \in Timers
    /\ pc[lock] = "flush_fn"

\* a call of HardwareMonitor.stop returns to its caller, whatever the
\* sampler thread does inside log_fn
HwStopReturns == (op["main"] = "hw_stop") ~> (pc["main"] = "idle")

\* C27: a call of MetricBuffer.stop returns to its caller, whatever the
\* timer thread does inside the flush callback.
C27_StopReturns == (op["main"] = "stop") ~> (pc["main"] = "idle")

\* no add call of the specifications gives more than two points
MaxPoints == MaxAdds + MaxAdds

\* on a started lenient buffer the n-th accepted point is handed to the
\* callback in the end, for every n
LenientTimerFlushes ==
    \A n \in 1..MaxPoints :
        (~strict /\ thread # NoThread /\ Len(accepted) >= n) ~> (Len(Flat(delivered)) >= n)

\* a strict buffer is started, its timer thread has ended with the error of
\* the callback, and a point accepted after that is in the buffer
TimerGoneWithPoints ==
    /\ strict
    /\ thread # NoThread
    /\ pc[thread] = "crashed"
    /\ buffer # <<>>
    /\ pc["main"] = "idle"

\* C28: on a started buffer that nobody flushes or stops, the n-th accepted
\* point is handed to the flush callback in the end, for every n, in strict
\* and in lenient mode.
C28_TimerFlushes ==
    \A n \in 1..MaxPoints :
        (thread # NoThread /\ Len(accepted) >= n) ~> (Len(Flat(delivered)) >= n)

\* the worker's log call has returned without an exception, the Run is
\* finished, and the points of the call are lost: not stored
SilentDrop ==
    /\ pc["worker"] = "idle"
    /\ conn = "none"
    /\ lost # {}
    /\ db_metrics = <<>>
    /\ \A t \in Threads : loc[t].exc = "none"

\* a callback that loses its batch is one in which insert_metrics raised:
\* the Run had its connection and its run when the callback was entered
LostByFailedInsert ==
    lost' # lost => \E t \in Threads : /\ pc[t] = "flush_fn"
                                       /\ pc'[t] # "flush_fn"
                                       /\ conn = "open"
                                       /\ run_info # NoRun

\* C29: the points of a batch that was taken from the buffer and not
\* inserted are lost by a failure of insert_metrics, which is logged and,
\* in strict mode, raised; no batch is lost in any other way.
C29_NoSilentDrop == [][LostByFailedInsert]_vars

\* an add call that gets the lock goes on to the callback, with the whole
\* buffer as the batch, if and only if the buffer with its entries has
\* max_size points or more; otherwise it returns
AddFlushesAtMaxSize ==
    \A t \in Producers :
        (pc[t] = "add_lock" /\ pc'[t] # "add_lock")
        => IF Len(buffer) + Len(loc[t].entries) >= MaxSize
           THEN /\ pc'[t] = "flush_fn"
                /\ loc'[t].batch = buffer \o loc[t].entries
                /\ buffer' = <<>>
           ELSE /\ pc'[t] = "ret"
                /\ buffer' = buffer \o loc[t].entries
                /\ lock' = NoThread

\* C30: add goes on to the flush callback exactly when the buffered count
\* reaches max_size, no thread is in the callback with an empty batch, and
\* the buffered count is below max_size whenever the lock is free.
C30_SizeFlush ==
    /\ [][AddFlushesAtMaxSize]_vars
    /\ [](\A t \in Threads : pc[t] = "flush_fn" => loc[t].batch # <<>>)
    /\ [](lock = NoThread => Len(buffer) < MaxSize)

\* an add call is in the callback with a batch of max_size points, after a
\* timer flush whose callback failed
C30_Witness ==
    /\ \E t \in Producers :
          /\ pc[t] = "flush_fn"
          /\ op[t] = "add"
          /\ Len(loc[t].batch) = MaxSize
    /\ \E tm \in Timers : pc[tm] = "crashed"
    /\ delivered # <<>>

\* the create call of "worker" returned the row of its table that holds
\* its name
WorkerFetched ==
    /\ loc["worker"].exc = "none"
    /\ \E i \in ByName(TableOf(op["worker"]), loc["worker"].name) :
          TableOf(op["worker"])[i].id = loc["worker"].result

\* C31: a create_experiment or create_project call whose INSERT failed on
\* the unique name finds the row to read back and returns it without an
\* error, whatever another connection that creates and deletes experiments
\* and projects of the same name does meanwhile; a call whose INSERT went
\* through returns without an error too, and a create call of the other
\* connection that got to its INSERT returns the row with its name.
C31_ConflictResolved ==
    /\ pc["worker"] = "conflict" =>
          ByName(TableOf(op["worker"]), loc["worker"].name) # {}
    /\ pc["worker"] = "ret_txn" => WorkerFetched
    /\ pc["worker"] = "ret" => loc["worker"].exc = "none"
    /\ oper.pc = "done" /\ oper.exc # "OperationalError" =>
          /\ oper.cmd = "create_experiment" => Fetched(db_experiments)
          /\ oper.cmd = "create_project" => Fetched(db_projects)

\* the call has read back a row that the other connection is deleting: the
\* delete has read the experiment and its runs and waits for the lock
C31_Witness ==
    /\ pc["worker"] = "ret_txn"
    /\ op["worker"] = "create_experiment"
    /\ WorkerFetched
    /\ oper.pc = "del_exp"
    /\ oper.target = loc["worker"].result

\* the indices of a set of points whose value is not None
NonNull(values, range) == {j \in range : ValueAt(values, j) # Null}

\* the first point of a set that holds the least, or the largest, value
MinPoint(values, range) ==
    CHOOSE j \in range :
        \A h \in range : \/ ValueAt(values, j).n < ValueAt(values, h).n
                          \/ (ValueAt(values, j).n = ValueAt(values, h).n /\ j <= h)
MaxPoint(values, range) ==
    CHOOSE j \in range :
        \A h \in range : \/ ValueAt(values, j).n > ValueAt(values, h).n
                          \/ (ValueAt(values, j).n = ValueAt(values, h).n /\ j <= h)

\* what a bucket is to add: the points with its least and its largest
\* value that is not None, the earlier one first and once if they are one
\* point; one of its points if all its values are None; nothing if it has
\* no points
Contributes(values, range, indices) ==
    LET some == NonNull(values, range)
        lo == MinPoint(values, some)
        hi == MaxPoint(values, some)
    IN IF range = {} THEN indices = <<>>
       ELSE IF some = {} THEN Len(indices) = 1 /\ indices[1] \in range
       ELSE IF lo = hi THEN indices = <<lo>>
       ELSE IF lo < hi THEN indices = <<lo, hi>>
       ELSE indices = <<hi, lo>>

\* every bucket of a call that reduced its series added the points of its
\* least and its largest value
MinMaxPerBucket ==
    Reduced =>
       \A i \in 0..(ds.target_points - 3) :
          Contributes(ds.values, BucketRange(Len(ds.values), i, ds.target_points - 2),
                      BucketIndices(ds.values, i, ds.target_points - 2))

\* the buckets of a call that reduced its series hold every interior point
\* of the series, each in one bucket
BucketsCoverInterior ==
    Reduced /\ ds.target_points > 2 =>
       LET n == Len(ds.values)
           num_buckets == ds.target_points - 2
       IN /\ UNION {BucketRange(n, i, num_buckets) : i \in 0..(num_buckets - 1)}
                = 1..(n - 2)
          /\ \A i, j \in 0..(num_buckets - 1) :
                i # j => BucketRange(n, i, num_buckets)
                            \cap BucketRange(n, j, num_buckets) = {}

\* the buckets hold every interior point whenever the end of the last
\* bucket comes out as len - 1
CoveredUnlessRoundedDown ==
    (/\ Reduced
     /\ ds.target_points > 2
     /\ BucketBound(ds.target_points - 2, Len(ds.values) - 2, ds.target_points - 2)
           = Len(ds.values) - 1)
    => BucketsCoverInterior

\* the last interior point of a series holds its only peak, and the
\* reduced series does not hold it
PeakDropped ==
    /\ Reduced
    /\ ValueAt(ds.values, Len(ds.values) - 2) = FloatV(1)
    /\ \A k \in DOMAIN ds.result : ds.result[k] # Len(ds.values) - 2

\* C32: when downsample_minmax reduces a series with target_points above
\* 2, its target_points - 2 buckets are contiguous ranges of indices that
\* hold every interior point 1..len-2 exactly once, and every bucket adds
\* the point of its least and the point of its largest value that is not
\* None, in index order and once if they are the same point, or one point
\* if all its values are None.
C32_BucketsMinMax ==
    /\ BucketsCoverInterior
    /\ MinMaxPerBucket

\* the column last_heartbeat of a run, in a table it is a row of
HeartbeatOf(runs, id) == runs[PosOf(runs, id)].last_heartbeat

\* a run that is running before and after a step
StaysRunning(id) ==
    /\ id \in Ids(db_runs) /\ id \in Ids(db_runs')
    /\ db_runs[PosOf(db_runs, id)].status = "running"
    /\ db_runs'[PosOf(db_runs', id)].status = "running"

\* a start that creates or reopens a run stores the time it reads, and so
\* does a flush of the Run's buffer that inserts rows
BeatsAreNow ==
    [][/\ \A id \in Ids(db_runs') \ Ids(db_runs) : HeartbeatOf(db_runs', id) = wall
       /\ \A id \in Ids(db_runs) \cap Ids(db_runs') :
             \/ (/\ db_runs[PosOf(db_runs, id)].status # "running"
                 /\ db_runs'[PosOf(db_runs', id)].status = "running")
             \/ (\E t \in Threads : pc[t] = "flush_fn" /\ pc'[t] # "flush_fn"
                                    /\ db_metrics' # db_metrics /\ run_info = id)
             => HeartbeatOf(db_runs', id) = wall]_vars

\* the heartbeat of a run that is running goes back only when the second
\* Run writes the time it read before it waited
DropsOnlyByLateWrite ==
    [][\A id \in Ids(db_runs) \cap Ids(db_runs') :
          StaysRunning(id) /\ HeartbeatOf(db_runs', id) < HeartbeatOf(db_runs, id)
          => oper.pc = "beat" /\ oper.stamp < wall]_vars

\* C33: the stored last_heartbeat of a run that is running never
\* decreases, given that time.time() never does: it is the time of the
\* creation, of the resume or of the last flush that inserted rows.
C33_HeartbeatMonotone ==
    [][\A id \in Ids(db_runs) \cap Ids(db_runs') :
          StaysRunning(id) => HeartbeatOf(db_runs', id) >= HeartbeatOf(db_runs, id)]_vars

\* the calls of a Run that need a started Run
Guarded == {"log", "log_config", "set_tags", "set_notes"}

\* the caller makes the call on a Run whose start() was not called, or
\* makes a log call on a Run whose finish() has returned
CallOutside(call) ==
    /\ pc["main"] = "idle" /\ pc'["main"] # "idle"
    /\ op'["main"] = call
    /\ conn = "none"
    /\ run_info = NoRun \/ call = "log"

\* C34: log, log_config, set_tags and set_notes on a Run that was not
\* started raise RuntimeError and change nothing: the buffer, the tables,
\* the step counter, the config, the tags and the notes are as before; so
\* does log on a Run that has finished.
C34_UnstartedCallsFail ==
    [][\A call \in Guarded :
          CallOutside(call)
          => /\ pc'["main"] = "ret"
             /\ loc'["main"].exc = "RuntimeError"
             /\ UNCHANGED <<buffer, accepted, dbVars, step_counter, config, tags,
                            notes, lock>>]_vars

\* log was called after the with-block of a started Run, which had stored
\* points, was left: it raised
C34_Witness ==
    /\ pc["main"] = "ret"
    /\ op["main"] = "log"
    /\ loc["main"].exc = "RuntimeError"
    /\ run_info # NoRun
    /\ conn = "none"
    /\ db_metrics # <<>>
    /\ RunOf(run_info).status = "completed"

\* set_notes was called before start and raised
NotesBeforeStart ==
    /\ pc["main"] = "ret"
    /\ op["main"] = "set_notes"
    /\ loc["main"].exc = "RuntimeError"
    /\ run_info = NoRun

\* the run of the Run is a row of the experiment that has the name the Run
\* was made with
InNamedExperiment ==
    \E i \in ByName(db_experiments, experiment_name) :
       db_experiments[i].id = RunOf(run_info).experiment_id

\* a start without run_id leaves the Run with a run of its experiment
LatestInExperiment ==
    [][\A r \in ResumeModes, pfx \in {prefix'}, en \in ExperimentNames :
          RunStart(r, NoRun, FALSE, pfx, Dict(<<Item("lr", 1)>>), en, NoName)
          /\ run_info' # NoRun
          => InNamedExperiment']_vars

\* a Run of one experiment has stored a point and a config in a run of the
\* other experiment, which another Run had logged to
WroteIntoOtherExperiment ==
    /\ run_info \in Ids(db_runs)
    /\ ~InNamedExperiment
    /\ resumed
    /\ Len(db_metrics) = 2
    /\ \A i \in DOMAIN db_metrics : db_metrics[i].run = run_info
    /\ ~RunOf(run_info).config.null

\* C35: the run a started Run holds, created or resumed, by id or as the
\* latest, is a run of the experiment that start() resolved by the name of
\* the Run.
C35_ResumeInExperiment ==
    run_info \in Ids(db_runs) => InNamedExperiment

\* finish(status), with a status other than "running", returns on a Run
\* that had its connection and its run
FinishReturns ==
    /\ pc["main"] = "fin_close" /\ pc'["main"] = "ret"
    /\ loc["main"].status # "running"
    /\ Started

\* finish(status), with a status other than "running", raises what
\* buffer.stop() raised
FinishRaises ==
    /\ pc["main"] = "ret" /\ pc'["main"] = "idle"
    /\ op["main"] = "finish"
    /\ loc["main"].exc # "none"
    /\ loc["main"].status # "running"
    /\ Started

\* the run of the Run has a status other than "running" and the Run has
\* no connection
Closed == conn = "none" /\ RunOf(run_info).status # "running"

\* a finish that returns leaves the run closed, in both modes
ClosedWhenReturned ==
    [][FinishReturns => Closed']_vars

\* a finish raises only in strict mode, and then a flush has failed
RaisesOnlyStrict ==
    [][FinishRaises => strict /\ lost # {}]_vars

\* C36: when finish has ended on a started Run, by returning or by
\* raising, the stored status of the run is not "running" and the Run has
\* no connection, in strict mode with a failing final flush too.
C36_FinishCloses ==
    [][FinishReturns \/ FinishRaises => Closed']_vars

\* the Run has stored a status other than "running" for its run
Ended == run_info \in Ids(db_runs) /\ RunOf(run_info).status # "running"

\* the join of the monitor timed out: the sampling thread is still inside
\* add while finish has stored the status of the run
SamplerOutlivesFinish ==
    /\ Ended
    /\ pc["sampler"] \in {"add_lock", "flush_fn"}

\* the sampling thread has appended its sample to the buffer of a Run that
\* has stored the status and closed its connection
LateSampleBuffered ==
    /\ Ended
    /\ conn = "none"
    /\ buffer # <<>>
    /\ \A i \in DOMAIN buffer : buffer[i].key = "sys"
    /\ pc["sampler"] \in {"ret", "dead"}
    /\ db_metrics # <<>>

\* once the Run has closed its connection, no row is written
NoRowsAfterClose ==
    [][Ended /\ conn = "none" => db_metrics' = db_metrics]_vars

\* a row that is written after the status is written by a thread whose join
\* timed out, between finish_run and the close of the connection
LateRowsByOutlivers ==
    [][Ended /\ db_metrics' # db_metrics
       => /\ pc["main"] = "fin_close"
          /\ \E t \in Timers \cup Samplers : pc[t] = "flush_fn" /\ pc'[t] # "flush_fn"]_vars

\* C37: once the Run has stored a status other than "running" for its
\* run, the rows of table metrics stay as they are, whatever the timer of
\* the buffer and a sampling thread that outlived its join do.
C37_NoRowsAfterEnd ==
    [][Ended => db_metrics' = db_metrics]_vars

\* stop() has returned on a buffer that had no timer thread when it was
\* called, with no add in progress
StoppedUnstarted ==
    /\ op["main"] = "stop" /\ pc["main"] = "ret"
    /\ ~callSnap.started
    /\ callSnap.quiet

\* stop() on a buffer without a timer thread returns at once and leaves
\* the buffer and what was handed to the callback as they are
StopUnstartedReturns ==
    [][pc["main"] = "idle" /\ op'["main"] = "stop" /\ thread = NoThread
       => /\ pc'["main"] = "ret"
          /\ UNCHANGED <<buffer, delivered, lock, thread, stop_event>>]_vars

\* stop() has returned on a buffer without a timer thread, after a batch
\* had been handed to the callback, and a point is still in the buffer
LeftAfterSecondStop ==
    /\ StoppedUnstarted
    /\ buffer # <<>>
    /\ delivered # <<>>

\* C38: when stop() has returned on a buffer whose timer thread was not
\* running, never started or stopped before, the buffer is empty: the
\* points added before were handed to the flush callback.
C38_StopDrainsUnstarted ==
    StoppedUnstarted => buffer = <<>>

\* a log call of the training thread is left with an exception: at once,
\* for an infinite value in strict mode
LogRejected(m, s) ==
    RunLog(m, s) /\ run_buffer /\ loc'["main"].exc # "none"

\* a log call of the training thread is left with the exception of the
\* flush callback it called
LogFlushRaises ==
    /\ op["main"] = "log"
    /\ pc["main"] = "flush_fn" /\ pc'["main"] = "ret"
    /\ loc'["main"].exc # "none"

\* a log call that raises has set the counter as one that returns does
RaisedLogAdvances ==
    [][/\ \A m \in RunDicts, s \in StepArgs :
             LogRejected(m, s) => /\ strict
                                  /\ step_counter' = NextCounter(s, step_counter)
       /\ LogFlushRaises /\ FreshAutoOnly
          => /\ strict
             /\ step_counter' = loc["main"].batch[Len(loc["main"].batch)].step + 1]_vars

\* C39: a log call that raises in strict mode, for an infinite value or
\* for a failing flush, leaves the step counter of the Run at the value it
\* had before the call; on a new run logged to without step that is the
\* step of the points of the call.
C39_RaisedLogKeepsCounter ==
    [][/\ \A m \in RunDicts, s \in StepArgs :
             LogRejected(m, s) => step_counter' = step_counter
       /\ LogFlushRaises /\ FreshAutoOnly
          => step_counter' = loc["main"].batch[Len(loc["main"].batch)].step]_vars

\* the rows of a run that the monitor's samples became
SysRows(run) == {i \in DOMAIN db_metrics : db_metrics[i].run = run /\ db_metrics[i].key = "sys"}

\* the monitor of a Run that starts counts its samples from 0, resumed or
\* not
MonitorStartsAtZero ==
    [][~hw_monitor /\ hw_monitor' => hw_step' = 0]_vars

\* the samples of one session have steps that differ: the buffer of this
\* Run holds no two samples with one step
SessionStepsDiffer ==
    \A i, j \in DOMAIN buffer :
       i # j /\ buffer[i].key = "sys" /\ buffer[j].key = "sys"
       => buffer[i].step # buffer[j].step

\* a resumed Run with monitoring has stored a sample at a step at which
\* the run had a sample before
ResumedSampleStored ==
    /\ resumed /\ hw_monitor
    /\ Cardinality(SysRows(run_info)) = 2

\* C40: the samples of a resumed session get steps after those stored for
\* the run: no two rows of a run with the key of a sample have one step.
C40_SysStepsUnique ==
    \A r \in Ids(db_runs) : \A i, j \in SysRows(r) :
       i # j => db_metrics[i].step # db_metrics[j].step

====
